---- MODULE Spec2Model ----
(***************************************************************************)
(* A model of the task/blog manager.  The server: the auth middleware,     *)
(* the ownership-scoped Task and Post controllers, the listing and         *)
(* statistics statics (paginate, search, getStats) and the error path.     *)
(* The browser: AuthProvider, ProtectedRoute, useTaskManager and the Posts *)
(* page.  The store is MongoDB behind Mongoose 8.7.3; tokens are           *)
(* jsonwebtoken 9.0.2.  Every store operation (findOne, findById, save,    *)
(* findOneAndDelete, find, countDocuments, create) is one atomic step; a   *)
(* handler that awaits several of them is several steps.  In the browser   *)
(* every stretch of a function between two awaits is one atomic step.      *)
(***************************************************************************)
EXTENDS Integers, Sequences, FiniteSets, TLC

VARIABLES
    users,      \* the User collection: a set of user documents
    gen,        \* how many times the seed script has replaced the collection
    now,        \* the clock, in days
    issued,     \* tokens signed with JWT_SECRET by generateAuthToken
    req,        \* the request context the last middleware run produced
    posts,      \* the Post collection: ObjectId -> document or NoDoc
    tasks,      \* the Task collection: ObjectId -> document or NoDoc
    nextId,     \* the next fresh ObjectId
    pc,         \* per request slot: the await the handler is suspended at
    loc,        \* per request slot: the handler's local variables
    last,       \* the response the last step sent, Null if it sent none
    authState,  \* the browser: AuthProvider's state (user, token, loading)
    localStorage, \* the browser: the localStorage entries 'token' and 'user'
    taskState,  \* the browser: useTaskManager's state (tasks, loading, error)
    pageState,  \* the browser: the state of the Posts page
    calls,      \* the browser: the async calls awaiting their response
    server      \* the Node process: "listening", or "closing" on its way out

vars == <<users, gen, now, issued, req, posts, tasks, nextId, pc, loc, last,
          authState, localStorage, taskState, pageState, calls, server>>

authVars == <<users, gen, now, issued, req>>
storeVars == <<posts, tasks, nextId, pc, loc, last>>
clientVars == <<authState, localStorage, taskState, pageState, calls>>
procVars == <<server>>

----------------------------------------------------------------------------
(* Bounds of the model *)

MaxTime == 8
MaxSeeds == 1
MaxTokens == 1
MaxDocs == 2
NumProcs == 2
MaxViews == 2
MaxPage == 4
MaxLimit == 3
MaxListed == 4
MaxOwned == 3
MaxUsers == 2
MaxSalts == 2
ScenarioPosts == 25
MaxCalls == 2
MaxSessions == 2
PagePosts == 11

(* Program constants *)

JwtExpire == 7
SeedUsers == 3

----------------------------------------------------------------------------
(* Users and tokens *)

Null == [k |-> "null"]

UserIds == 1..((MaxSeeds + 1) * SeedUsers)

\* The names seed.js gives its users; each email is the first name at
\* example.com.
SeedNames == <<"John Doe", "Jane Smith", "Bob Johnson">>
SeedEmails == <<"john@example.com", "jane@example.com", "bob@example.com">>

\* seed.js creates SeedUsers users per run; the first one is the admin.
SeedUser(g, i) ==
    [_id |-> g * SeedUsers + i,
     name |-> SeedNames[i],
     email |-> SeedEmails[i],
     role |-> IF i = 1 THEN "admin" ELSE "user",
     password |-> "hash"]

SeededUsers(g) == {SeedUser(g, i) : i \in 1..SeedUsers}

\* A lookup answered from the users as they were when last seeded (a cache),
\* not from the collection.
FindUserByIdCached(id) ==
    IF \E u \in SeededUsers(gen) : u._id = id
    THEN CHOOSE u \in SeededUsers(gen) : u._id = id
    ELSE Null

\* User.findById(id): the document with that _id, or Null.
FindUserById(id) ==
    IF \E u \in users : u._id = id
    THEN CHOOSE u \in users : u._id = id
    ELSE Null

\* .select('-password'): the document without its password path.
SelectNoPassword(u) ==
    IF u = Null THEN Null
    ELSE [k |-> "user", _id |-> u._id, name |-> u.name, email |-> u.email,
          role |-> u.role]

\* jwt.sign(payload, JWT_SECRET, {expiresIn}) for the user document u.
generateAuthToken(u) ==
    [k |-> "jwt", sig |-> "good", id |-> u._id, email |-> u.email,
     name |-> u.name, role |-> u.role, iat |-> now, exp |-> now + JwtExpire]

\* Token strings a client can send that the server never signed: text that is
\* no JWT at all, and JWTs with any payload signed with another key.
Junk == [k |-> "junk"]
Forged ==
    {[k |-> "jwt", sig |-> "bad", id |-> i, email |-> SeedEmails[1],
      name |-> SeedNames[1], role |-> r, iat |-> 0, exp |-> e] :
        i \in UserIds, r \in {"admin"}, e \in {0, MaxTime + JwtExpire}}

Bearer == [k |-> "bearer"]

\* The Authorization header: absent, or a string.  A string is a sequence of
\* chunks, each the literal 'Bearer ' or a token string.
NoHeader == <<[k |-> "absent"]>>
Chunks == {Bearer, Junk} \cup Forged \cup issued
Headers ==
    {NoHeader, <<>>} \cup {<<c>> : c \in Chunks}
        \cup {<<Bearer, c>> : c \in Chunks}

\* String.prototype.replace('Bearer ', ''): drops the first occurrence.
RECURSIVE ReplaceBearer(_)
ReplaceBearer(h) ==
    IF h = <<>> THEN <<>>
    ELSE IF Head(h) = Bearer THEN Tail(h)
    ELSE <<Head(h)>> \o ReplaceBearer(Tail(h))

\* The header carries the token t, bare or after 'Bearer '.
Carries(h, t) == h \in {<<t>>, <<Bearer, t>>}

\* jwt.verify called with ignoreExpiration.
jwtVerifyIgnoreExpiration(token) ==
    IF Len(token) # 1 \/ token[1].k # "jwt"
    THEN [ok |-> FALSE, name |-> "JsonWebTokenError"]
    ELSE IF token[1].sig # "good"
    THEN [ok |-> FALSE, name |-> "JsonWebTokenError"]
    ELSE [ok |-> TRUE, decoded |-> token[1]]

\* jwt.verify(token, JWT_SECRET): the decoded payload, or the name of the
\* error thrown.  The structure is checked first, then the signature, then
\* the expiry (clockTimestamp >= exp).
jwtVerify(token) ==
    IF Len(token) # 1 \/ token[1].k # "jwt"
    THEN [ok |-> FALSE, name |-> "JsonWebTokenError"]
    ELSE IF token[1].sig # "good"
    THEN [ok |-> FALSE, name |-> "JsonWebTokenError"]
    ELSE IF now >= token[1].exp
    THEN [ok |-> FALSE, name |-> "TokenExpiredError"]
    ELSE [ok |-> TRUE, decoded |-> token[1]]

----------------------------------------------------------------------------
(* The auth middleware *)

\* What one run of a middleware left behind: the response it sent (status 0:
\* none), how often it called next(), and req.user / req.userId.
Outcome(mw, h, status, message, nexts, user) ==
    [mw |-> mw, header |-> h, status |-> status, message |-> message,
     nexts |-> nexts, user |-> user,
     userId |-> IF user = Null THEN Null ELSE [k |-> "id", v |-> user._id]]

NoReq == Outcome("none", NoHeader, 0, "", 0, Null)

\* authCatch without its TokenExpiredError branch.
authCatchNoExpiredBranch(h, name) ==
    IF name = "JsonWebTokenError"
    THEN Outcome("auth", h, 401, "Invalid token", 0, Null)
    ELSE Outcome("auth", h, 500, "Server error during authentication", 0, Null)

\* The catch block of auth: the two JWT error names get 401, the rest 500.
authCatch(h, name) ==
    IF name = "JsonWebTokenError"
    THEN Outcome("auth", h, 401, "Invalid token", 0, Null)
    ELSE IF name = "TokenExpiredError"
    THEN Outcome("auth", h, 401, "Token expired, please login again", 0, Null)
    ELSE Outcome("auth", h, 500, "Server error during authentication", 0, Null)

\* auth without the return in its `if (!user)` branch: it answers 401 and
\* falls through to next().
authRunNoReturn(h, dbUp) ==
    IF h = NoHeader \/ h = <<>>
    THEN Outcome("auth", h, 401, "No authorization header, access denied", 0, Null)
    ELSE LET token == ReplaceBearer(h) IN
         IF token = <<>>
         THEN Outcome("auth", h, 401, "No token provided, authorization denied", 0, Null)
         ELSE LET v == jwtVerify(token) IN
              IF ~v.ok THEN authCatch(h, v.name)
              ELSE IF ~dbUp THEN authCatch(h, "MongoNetworkError")
              ELSE LET user == SelectNoPassword(FindUserById(v.decoded.id)) IN
                   IF user = Null
                   THEN Outcome("auth", h, 401, "User not found, token invalid", 1, Null)
                   ELSE Outcome("auth", h, 0, "", 1, user)

\* The body of auth for the header h; dbUp is whether User.findById resolves.
authRun(h, dbUp) ==
    IF h = NoHeader \/ h = <<>>
    THEN Outcome("auth", h, 401, "No authorization header, access denied", 0, Null)
    ELSE LET token == ReplaceBearer(h) IN
         IF token = <<>>
         THEN Outcome("auth", h, 401, "No token provided, authorization denied", 0, Null)
         ELSE LET v == jwtVerify(token) IN
              IF ~v.ok THEN authCatch(h, v.name)
              ELSE IF ~dbUp THEN authCatch(h, "MongoNetworkError")
              ELSE LET user == SelectNoPassword(FindUserById(v.decoded.id)) IN
                   IF user = Null
                   THEN Outcome("auth", h, 401, "User not found, token invalid", 0, Null)
                   ELSE Outcome("auth", h, 0, "", 1, user)

auth(h, dbUp) ==
    /\ req' = authRun(h, dbUp)
    /\ UNCHANGED <<users, gen, now, issued>>
    /\ UNCHANGED <<storeVars, clientVars, procVars>>

\* optionalAuth taking the user from the token's claims, with no lookup.
optionalAuthRunTrustsToken(h, dbUp) ==
    IF h = NoHeader \/ h = <<>>
    THEN Outcome("optionalAuth", h, 0, "", 1, Null)
    ELSE LET v == jwtVerify(ReplaceBearer(h)) IN
         IF ~v.ok \/ ~dbUp
         THEN Outcome("optionalAuth", h, 0, "", 1, Null)
         ELSE Outcome("optionalAuth", h, 0, "", 1,
                      [k |-> "user", _id |-> v.decoded.id, name |-> v.decoded.name,
                       email |-> v.decoded.email, role |-> v.decoded.role])

\* The body of optionalAuth: with a header it verifies and looks the user up
\* as auth does; whatever is thrown is caught and next() is called.
optionalAuthRun(h, dbUp) ==
    IF h = NoHeader \/ h = <<>>
    THEN Outcome("optionalAuth", h, 0, "", 1, Null)
    ELSE LET v == jwtVerify(ReplaceBearer(h)) IN
         IF ~v.ok \/ ~dbUp
         THEN Outcome("optionalAuth", h, 0, "", 1, Null)
         ELSE Outcome("optionalAuth", h, 0, "", 1,
                      SelectNoPassword(FindUserById(v.decoded.id)))

optionalAuth(h, dbUp) ==
    /\ req' = optionalAuthRun(h, dbUp)
    /\ UNCHANGED <<users, gen, now, issued>>
    /\ UNCHANGED <<storeVars, clientVars, procVars>>

\* isAdmin deciding on the role claim of the token in the header.
isAdminRunTokenRole(r) ==
    IF r.user = Null
    THEN Outcome("isAdmin", r.header, 401, "Authentication required", 0, r.user)
    ELSE IF ReplaceBearer(r.header)[1].role # "admin"
    THEN Outcome("isAdmin", r.header, 403,
                 "Access denied: Admin privileges required", 0, r.user)
    ELSE Outcome("isAdmin", r.header, 0, "", 1, r.user)

\* The body of isAdmin on the request context r the middleware before it
\* left: it reads req.user and leaves it as it is.
isAdminRun(r) ==
    IF r.user = Null
    THEN Outcome("isAdmin", r.header, 401, "Authentication required", 0, r.user)
    ELSE IF r.user.role # "admin"
    THEN Outcome("isAdmin", r.header, 403,
                 "Access denied: Admin privileges required", 0, r.user)
    ELSE Outcome("isAdmin", r.header, 0, "", 1, r.user)

\* isAdmin runs when the middleware before it called next(), or first in
\* its route.
isAdmin ==
    /\ req = NoReq \/ (req.mw \in {"auth", "optionalAuth"} /\ req.nexts = 1)
    /\ req' = isAdminRun(req)
    /\ UNCHANGED <<users, gen, now, issued>>
    /\ UNCHANGED <<storeVars, clientVars, procVars>>

\* The role of a stored user is changed; tokens signed before keep the role
\* claim they were signed with.
SetRole(u, role) ==
    /\ u \in users
    /\ u.role # role
    /\ users' = (users \ {u}) \cup {[u EXCEPT !.role = role]}
    /\ req' = NoReq
    /\ UNCHANGED <<gen, now, issued>>
    /\ UNCHANGED <<storeVars, clientVars, procVars>>

\* toJSON deleting __v alone.
toJSONKeepsPassword(doc) ==
    [f \in DOMAIN doc \ {"__v"} |-> doc[f]]

\* userSchema.methods.toJSON: the document's paths without password and __v.
toJSON(doc) ==
    [f \in DOMAIN doc \ {"password", "__v"} |-> doc[f]]

\* res.json with a user document in it: JSON.stringify serializes the
\* document through its toJSON.
SendUser(doc) ==
    /\ last' = [op |-> "sendUser", caller |-> doc._id, id |-> 0,
                res |-> [status |-> 200, success |-> TRUE, message |-> "",
                         errors |-> [k |-> "absent"], data |-> toJSON(doc)]]
    /\ UNCHANGED <<posts, tasks, nextId, pc, loc>>
    /\ UNCHANGED <<authVars, clientVars, procVars>>

\* A login or registration hands the user a fresh token.
IssueToken(u) ==
    /\ u \in users
    /\ Cardinality(issued) < MaxTokens
    /\ issued' = issued \cup {generateAuthToken(u)}
    /\ req' = NoReq
    /\ UNCHANGED <<users, gen, now>>
    /\ UNCHANGED <<storeVars, clientVars, procVars>>

\* A client drops a token it holds (logout); the server keeps no record.
DropToken(t) ==
    /\ t \in issued
    /\ issued' = issued \ {t}
    /\ req' = NoReq
    /\ UNCHANGED <<users, gen, now>>
    /\ UNCHANGED <<storeVars, clientVars, procVars>>

Tick ==
    /\ now < MaxTime
    /\ now' = now + 1
    /\ req' = NoReq
    /\ UNCHANGED <<users, gen, issued>>
    /\ UNCHANGED <<storeVars, clientVars, procVars>>

\* seed.js: User.deleteMany({}) and User.create([...]) with fresh ids.
Seed ==
    /\ gen < MaxSeeds
    /\ gen' = gen + 1
    /\ users' = SeededUsers(gen + 1)
    /\ req' = NoReq
    /\ UNCHANGED <<now, issued>>
    /\ UNCHANGED <<storeVars, clientVars, procVars>>

\* One user document is deleted from the collection; tokens signed for the
\* user stay as they are.
RemoveUser(u) ==
    /\ u \in users
    /\ users' = users \ {u}
    /\ req' = NoReq
    /\ UNCHANGED <<gen, now, issued>>
    /\ UNCHANGED <<storeVars, clientVars, procVars>>

AuthInit ==
    /\ users = SeededUsers(0)
    /\ gen = 0
    /\ now = 0
    /\ issued = {}
    /\ req = NoReq

\* The async calls of the browser code: each is suspended at its await or
\* has returned.
CallIds == 1..MaxCalls
NoCall == [k |-> "none"]

\* A number held in a state that can also hold undefined.
Num(n) == [k |-> "number", v |-> n]
NotANumber == [k |-> "undefined"]

\* The useState calls of the Posts page.  `submitted` is history the page
\* does not keep: the query of the last handleSearch or clearSearch, blank
\* when the search was cleared.
PostsInitialState ==
    [posts |-> <<>>, loading |-> TRUE, error |-> Null, currentPage |-> 1,
     totalPages |-> Num(1), searchQuery |-> "", isSearching |-> FALSE,
     submitted |-> ""]

\* The browser before the application is mounted: the initial values of the
\* useState calls, an empty localStorage, no call under way.
ClientInit ==
    /\ authState = [user |-> Null, token |-> Null, loading |-> TRUE]
    /\ localStorage = [token |-> Null, user |-> Null]
    /\ taskState = [tasks |-> <<>>, loading |-> TRUE, error |-> Null]
    /\ pageState = PostsInitialState
    /\ calls = [c \in CallIds |-> NoCall]

\* The Node process after app.listen.
ProcInit == server = "listening"

----------------------------------------------------------------------------
(* Values, documents and validation *)

\* Request values are written as strings: "undefined" for a key that is
\* absent, "" for the empty string, "true" and "false" for the booleans.
Undefined == "undefined"

\* JavaScript truthiness, as `if (title)` tests it.
Truthy(v) == v \notin {Undefined, "", "false", "null"}

\* String.prototype.trim() of a search term or a form input.
Trim(term) == IF term = " " THEN "" ELSE term

StrLen(s) == IF s = "" THEN 0 ELSE IF s = "hi" THEN 2 ELSE 5

\* The Boolean schema type's cast of a request value.
CastBoolean(v) == v = "true"

DefaultLimit == 10
TitleMinLength == 3
TextMinLength == 1

NoDoc == [k |-> "none"]

Ids == 1..MaxDocs

\* A request parameter that is no ObjectId: the cast of the query throws.
BadId == 0
IdParams == {BadId} \cup Ids

\* The callers the controllers see in req.userId: two seeded users.
Jane == SeedUser(0, 2)._id
Bob == SeedUser(0, 3)._id
Callers == {Jane, Bob}

\* postSchema: the paths of a new document, with their defaults.
NewPost(id, userId, title) ==
    [k |-> "post", _id |-> id, author |-> userId, title |-> title,
     published |-> TRUE, views |-> 0, createdAt |-> id]

\* taskSchema: the paths of a new document, with their defaults.
NewTask(id, userId, text) ==
    [k |-> "task", _id |-> id, user |-> userId, text |-> text,
     completed |-> FALSE, createdAt |-> id]

\* The validators of postSchema: the paths that fail.
ValidatePost(doc) ==
    IF doc.title \in {Undefined, ""} \/ StrLen(doc.title) < TitleMinLength
    THEN {"title"} ELSE {}

\* The validators of taskSchema: the paths that fail.
ValidateTask(doc) ==
    IF doc.text \in {Undefined, ""} \/ StrLen(doc.text) < TextMinLength
    THEN {"text"} ELSE {}

----------------------------------------------------------------------------
(* Errors and responses *)

\* An error object: its name, the statusCode and code it may carry (0:
\* none), its message, the keys of err.errors, err.keyPattern, and the path
\* and value of a failed cast.
Err(name, message, paths) ==
    [name |-> name, statusCode |-> 0, code |-> 0, message |-> message,
     paths |-> paths, keyPattern |-> <<>>, path |-> "", value |-> ""]

ValidationError(paths) == Err("ValidationError", "validation failed", paths)
CastError ==
    [Err("CastError", "Cast to ObjectId failed", {}) EXCEPT
        !.path = "_id", !.value = "not-an-id"]
DocumentNotFoundError ==
    Err("DocumentNotFoundError", "No document found for query", {})

\* The E11000 error of a unique index on the given field.
DuplicateKeyError(field) ==
    [Err("MongoServerError", "E11000 duplicate key error", {}) EXCEPT
        !.code = 11000, !.keyPattern = <<field>>]

\* The schema paths with validators, in the order they are declared.
SchemaPaths == <<"title", "body", "text", "email">>

\* The validator error err.errors holds for a failing path.
ValidatorError(path) == [path |-> path, message |-> path \o " is invalid"]

\* Object.values(err.errors): one validator error per failing path.
ErrorValues(err) ==
    LET failing == SelectSeq(SchemaPaths, LAMBDA p : p \in err.paths)
    IN  [i \in 1..Len(failing) |-> ValidatorError(failing[i])]

\* A response body without the key `errors`, and an array as the value of
\* a key.
NoErrors == [k |-> "absent"]
Array(seq) == [k |-> "array", items |-> seq]

\* res.status(status).json({success, message, errors, data})
Json(status, message, errors, data) ==
    [status |-> status, success |-> status < 400, message |-> message,
     errors |-> errors, data |-> data]

\* errorHandler without its CastError branch.
errorHandlerNoCastBranch(err) ==
    LET vals == ErrorValues(err)
        s0 == IF err.statusCode # 0 THEN err.statusCode ELSE 500
        m0 == IF err.message # "" THEN err.message ELSE "Server Error"
        s1 == IF err.name = "ValidationError" THEN 400 ELSE s0
        m1 == IF err.name = "ValidationError" THEN "Validation failed" ELSE m0
        e1 == IF err.name = "ValidationError"
              THEN Array([i \in 1..Len(vals) |->
                            [field |-> vals[i].path, message |-> vals[i].message]])
              ELSE Null
        s2 == IF err.code = 11000 THEN 400 ELSE s1
        m2 == IF err.code = 11000
              THEN err.keyPattern[1] \o " already exists" ELSE m1
        s4 == IF err.name = "JsonWebTokenError" THEN 401 ELSE s2
        m4 == IF err.name = "JsonWebTokenError" THEN "Invalid token" ELSE m2
        s5 == IF err.name = "TokenExpiredError" THEN 401 ELSE s4
        m5 == IF err.name = "TokenExpiredError" THEN "Token expired" ELSE m4
    IN  [status |-> s5, success |-> FALSE, message |-> m5, errors |-> e1,
         data |-> Null]

\* errorHandler: the defaults, then each `if` in the order of the code, then
\* the response with success: false.
errorHandler(err) ==
    LET vals == ErrorValues(err)
        s0 == IF err.statusCode # 0 THEN err.statusCode ELSE 500
        m0 == IF err.message # "" THEN err.message ELSE "Server Error"
        s1 == IF err.name = "ValidationError" THEN 400 ELSE s0
        m1 == IF err.name = "ValidationError" THEN "Validation failed" ELSE m0
        e1 == IF err.name = "ValidationError"
              THEN Array([i \in 1..Len(vals) |->
                            [field |-> vals[i].path, message |-> vals[i].message]])
              ELSE Null
        s2 == IF err.code = 11000 THEN 400 ELSE s1
        m2 == IF err.code = 11000
              THEN err.keyPattern[1] \o " already exists" ELSE m1
        s3 == IF err.name = "CastError" THEN 400 ELSE s2
        m3 == IF err.name = "CastError"
              THEN "Invalid " \o err.path \o ": " \o err.value ELSE m2
        s4 == IF err.name = "JsonWebTokenError" THEN 401 ELSE s3
        m4 == IF err.name = "JsonWebTokenError" THEN "Invalid token" ELSE m3
        s5 == IF err.name = "TokenExpiredError" THEN 401 ELSE s4
        m5 == IF err.name = "TokenExpiredError" THEN "Token expired" ELSE m4
    IN  [status |-> s5, success |-> FALSE, message |-> m5, errors |-> e1,
         data |-> Null]

\* The response a controller sent, with the request it answers.
Sent(op, caller, id, res) ==
    [op |-> op, caller |-> caller, id |-> id, res |-> res]

----------------------------------------------------------------------------
(* The store and the request slots *)

Procs == 1..NumProcs

Idle == [k |-> "idle"]

StoreInit ==
    /\ posts = [i \in Ids |-> NoDoc]
    /\ tasks = [i \in Ids |-> NoDoc]
    /\ nextId = 1
    /\ pc = [p \in Procs |-> "idle"]
    /\ loc = [p \in Procs |-> Idle]
    /\ last = Null

\* The lookup without its owner condition: Model.findOne({_id: id}).
FindUnscoped(coll, id, ownerPath, userId) ==
    IF id \in Ids THEN coll[id] ELSE NoDoc

\* Model.findOne({_id: id, <ownerPath>: userId}) on a collection.
FindOwned(coll, id, ownerPath, userId) ==
    IF id \in Ids /\ coll[id] # NoDoc /\ coll[id][ownerPath] = userId
    THEN coll[id] ELSE NoDoc

\* Model.findById(id) on a collection.
FindById(coll, id) == IF id \in Ids THEN coll[id] ELSE NoDoc

\* doc.save() of a loaded document: the $set of its modified paths.
SetPaths(stored, doc, mod) ==
    [f \in DOMAIN stored |-> IF f \in mod THEN doc[f] ELSE stored[f]]

\* The paths an assignment marks modified: those whose value changes.
Modified(loaded, doc) == {f \in DOMAIN loaded : doc[f] # loaded[f]}

\* The handler in slot p reaches an await without having answered.
Suspend(p, at, locals) ==
    /\ pc' = [pc EXCEPT ![p] = at]
    /\ loc' = [loc EXCEPT ![p] = locals]
    /\ last' = Null

\* A new request takes the free slot of least index.
Free(p) == pc[p] = "idle" /\ \A q \in Procs : q < p => pc[q] # "idle"

Finish(p) ==
    /\ pc' = [pc EXCEPT ![p] = "idle"]
    /\ loc' = [loc EXCEPT ![p] = Idle]

----------------------------------------------------------------------------
(* Post controllers *)

\* req.body of a post update: the keys the handler reads.
PostBodies ==
    [title : {Undefined, "", "hi", "hello", "world"},
     published : {Undefined, "true", "false"}]

\* A caller that optionalAuth let through without a user.
Anonymous == 0

Reply(op, caller, id, res) == last' = Sent(op, caller, id, res)

\* createPost: Post.create validates and inserts in one store operation.
CreatePost(caller, title) ==
    /\ nextId <= MaxDocs
    /\ LET post == NewPost(nextId, caller, title)
           bad == ValidatePost(post)
       IN  IF bad # {}
           THEN /\ Reply("createPost", caller, nextId, errorHandler(ValidationError(bad)))
                /\ UNCHANGED <<posts, nextId>>
           ELSE /\ posts' = [posts EXCEPT ![nextId] = post]
                /\ nextId' = nextId + 1
                /\ Reply("createPost", caller, nextId,
                         Json(201, "Post created successfully", NoErrors, post))
    /\ UNCHANGED <<tasks, pc, loc>>
    /\ UNCHANGED <<authVars, clientVars, procVars>>

\* createPost passing the whole body to Post.create: the body's published,
\* views and author reach the document.
createPostSpreadsBody(caller, body) ==
    /\ nextId <= MaxDocs
    /\ ValidatePost(NewPost(nextId, caller, body.title)) = {}
    /\ LET post == [NewPost(nextId, body.author, body.title)
                       EXCEPT !.published = CastBoolean(body.published)]
       IN  /\ posts' = [posts EXCEPT ![nextId] = post]
           /\ nextId' = nextId + 1
           /\ Reply("createPost", caller, nextId,
                    Json(201, "Post created successfully", NoErrors, post))
    /\ UNCHANGED <<tasks, pc, loc>>
    /\ UNCHANGED <<authVars, clientVars, procVars>>

\* createPost reads title (and body, category, tags, image) from req.body
\* and takes the author from req.userId; no other key of the body is read.
createPost(caller, body) == CreatePost(caller, body.title)

\* The assignments of updatePost with Object.assign(post, req.body) for the
\* author key.
updatePostAssignAuthor(post, body) ==
    [post EXCEPT !.author = body.author]

\* The assignments of updatePost to the loaded document.
updatePostAssign(post, body) ==
    LET d1 == IF Truthy(body.title)
              THEN [post EXCEPT !.title = body.title] ELSE post
    IN  IF body.published # Undefined
        THEN [d1 EXCEPT !.published = CastBoolean(body.published)] ELSE d1

\* updatePost up to `await post.save()`: the owner-scoped findOne, the 404,
\* the assignments.
UpdatePostFind(p, caller, id, body) ==
    /\ Free(p)
    /\ IF id = BadId
       THEN /\ Reply("updatePost", caller, id, errorHandler(CastError))
            /\ UNCHANGED <<pc, loc>>
       ELSE LET post == FindOwned(posts, id, "author", caller) IN
            IF post = NoDoc
            THEN /\ Reply("updatePost", caller, id,
                          Json(404, "Post not found or unauthorized", NoErrors, Null))
                 /\ UNCHANGED <<pc, loc>>
            ELSE /\ Suspend(p, "updatePost",
                       [k |-> "update", caller |-> caller, id |-> id, body |-> body,
                        doc |-> updatePostAssign(post, body),
                        mod |-> Modified(post, updatePostAssign(post, body))])
    /\ UNCHANGED <<posts, tasks, nextId>>
    /\ UNCHANGED <<authVars, clientVars, procVars>>

\* post.save() and the response: validation, then the update of the stored
\* document, which fails when the document is gone.
UpdatePostSave(p) ==
    /\ pc[p] = "updatePost"
    /\ LET l == loc[p]
           bad == ValidatePost(l.doc)
       IN  IF bad # {}
           THEN /\ Reply("updatePost", l.caller, l.id, errorHandler(ValidationError(bad)))
                /\ UNCHANGED posts
           ELSE IF posts[l.id] = NoDoc
           THEN /\ Reply("updatePost", l.caller, l.id, errorHandler(DocumentNotFoundError))
                /\ UNCHANGED posts
           ELSE /\ posts' = [posts EXCEPT ![l.id] = SetPaths(@, l.doc, l.mod)]
                /\ Reply("updatePost", l.caller, l.id,
                         Json(200, "Post updated successfully", NoErrors, l.doc))
    /\ Finish(p)
    /\ UNCHANGED <<tasks, nextId>>
    /\ UNCHANGED <<authVars, clientVars, procVars>>

\* deletePost: one findOneAndDelete scoped to the author.
DeletePost(caller, id) ==
    /\ IF id = BadId
       THEN /\ Reply("deletePost", caller, id, errorHandler(CastError))
            /\ UNCHANGED posts
       ELSE IF FindOwned(posts, id, "author", caller) = NoDoc
       THEN /\ Reply("deletePost", caller, id,
                     Json(404, "Post not found or unauthorized", NoErrors, Null))
            /\ UNCHANGED posts
       ELSE /\ posts' = [posts EXCEPT ![id] = NoDoc]
            /\ Reply("deletePost", caller, id,
                     Json(200, "Post deleted successfully", NoErrors, Null))
    /\ UNCHANGED <<tasks, nextId, pc, loc>>
    /\ UNCHANGED <<authVars, clientVars, procVars>>

\* incrementViews without its `this.views += 1`.
incrementViewsSkipped(post) == post

\* incrementViews up to its save: this.views += 1 on the loaded document.
incrementViews(post) == [post EXCEPT !.views = @ + 1]

\* getPost up to the save inside incrementViews: findById, the 404, the
\* increment in memory.
GetPostFind(p, caller, id) ==
    /\ Free(p)
    /\ IF id = BadId
       THEN /\ Reply("getPost", caller, id, errorHandler(CastError))
            /\ UNCHANGED <<pc, loc>>
       ELSE LET post == FindById(posts, id) IN
            IF post = NoDoc
            THEN /\ Reply("getPost", caller, id, Json(404, "Post not found", NoErrors, Null))
                 /\ UNCHANGED <<pc, loc>>
            ELSE /\ post.views < MaxViews
                 /\ Suspend(p, "getPost",
                       [k |-> "get", caller |-> caller, id |-> id,
                        doc |-> incrementViews(post), mod |-> {"views"}])
    /\ UNCHANGED <<posts, tasks, nextId>>
    /\ UNCHANGED <<authVars, clientVars, procVars>>

\* The save of incrementViews and the response of getPost.
GetPostSave(p) ==
    /\ pc[p] = "getPost"
    /\ LET l == loc[p] IN
       IF posts[l.id] = NoDoc
       THEN /\ Reply("getPost", l.caller, l.id, errorHandler(DocumentNotFoundError))
            /\ UNCHANGED posts
       ELSE /\ posts' = [posts EXCEPT ![l.id] = SetPaths(@, l.doc, l.mod)]
            /\ Reply("getPost", l.caller, l.id, Json(200, "", NoErrors, l.doc))
    /\ Finish(p)
    /\ UNCHANGED <<tasks, nextId>>
    /\ UNCHANGED <<authVars, clientVars, procVars>>

----------------------------------------------------------------------------
(* Post listing: the paginate and search statics and getPosts *)

\* A query document: a function from some paths to the values they must have.
EmptyFilter == [f \in {} |-> TRUE]

\* {published: true, ...filter}: the keys of the filter are spread last.
PaginateQuery(filter) ==
    [f \in {"published"} \cup DOMAIN filter |->
        IF f \in DOMAIN filter THEN filter[f] ELSE TRUE]

\* The documents of a collection that match a query document.
Matching(coll, query) ==
    {coll[i] : i \in {j \in DOMAIN coll :
        coll[j] # NoDoc /\ \A f \in DOMAIN query : coll[j][f] = query[f]}}

\* .sort({createdAt: -1}): newest first.
RECURSIVE SortNewestFirst(_)
SortNewestFirst(docs) ==
    IF docs = {} THEN <<>>
    ELSE LET newest == CHOOSE d \in docs : \A e \in docs : e.createdAt <= d.createdAt
         IN  <<newest>> \o SortNewestFirst(docs \ {newest})

\* .skip(n) and .limit(n) of a cursor.
Skip(seq, n) == IF n >= Len(seq) THEN <<>> ELSE SubSeq(seq, n + 1, Len(seq))
Limit(seq, n) == IF n >= Len(seq) THEN seq ELSE SubSeq(seq, 1, n)

\* Math.ceil(a / b) for b > 0.
Ceil(a, b) == (a + b - 1) \div b

\* The skip with pages counted from 0.
PageSkipFromZero(page, limit) == page * limit

\* paginate computes the skip from the page and the limit.
PageSkip(page, limit) == (page - 1) * limit

\* The page query of paginate against the collection.
PaginateFind(coll, opts) ==
    Limit(Skip(SortNewestFirst(Matching(coll, PaginateQuery(opts.filter))),
               PageSkip(opts.page, opts.limit)),
          opts.limit)

\* The count query of paginate against the collection.
PaginateCount(coll, opts) ==
    Cardinality(Matching(coll, PaginateQuery(opts.filter)))

\* What paginate returns from the results of its two queries.
PaginateResult(opts, found, total) ==
    [posts |-> found,
     pagination |->
        [page |-> opts.page, limit |-> opts.limit, total |-> total,
         pages |-> Ceil(total, opts.limit),
         hasMore |-> PageSkip(opts.page, opts.limit) + Len(found) < total]]

\* paginate issues its two queries together (Promise.all); the store runs
\* them one after the other in either order.  The first one:
PaginateFirst(p, opts, first) ==
    /\ Free(p)
    /\ Suspend(p, "paginate",
          [k |-> "paginate", opts |-> opts, first |-> first,
           found |-> IF first = "find" THEN PaginateFind(posts, opts) ELSE <<>>,
           total |-> IF first = "count" THEN PaginateCount(posts, opts) ELSE 0])
    /\ UNCHANGED <<posts, tasks, nextId>>
    /\ UNCHANGED <<authVars, clientVars, procVars>>

\* The second query of paginate, and the response of getPosts.
PaginateSecond(p) ==
    /\ pc[p] = "paginate"
    /\ LET l == loc[p]
           found == IF l.first = "find" THEN l.found ELSE PaginateFind(posts, l.opts)
           total == IF l.first = "count" THEN l.total ELSE PaginateCount(posts, l.opts)
       IN  Reply("paginate", Anonymous, BadId,
                 Json(200, "", NoErrors, PaginateResult(l.opts, found, total)))
    /\ Finish(p)
    /\ UNCHANGED <<posts, tasks, nextId>>
    /\ UNCHANGED <<authVars, clientVars, procVars>>

\* $text: {$search: query}: a document matches when its text has the term.
\* Titles are single words here, so a title matches the query that equals it.
TextMatches(doc, query) == doc.title = query

\* The orders a sort by text score can produce: documents of equal score
\* (all matches of a one-word query) come in any order.
Orderings(docs) ==
    {s \in [1..Cardinality(docs) -> docs] :
        \A i, j \in 1..Cardinality(docs) : i # j => s[i] # s[j]}

\* search: one find, filtered on published, windowed by skip and limit.
SearchFind(ordered, opts) ==
    Limit(Skip(ordered, PageSkip(opts.page, opts.limit)), opts.limit)

\* getPosts with a search term: Post.search and the response.
Search(query, opts) ==
    /\ \E ordered \in Orderings({d \in Matching(posts, [published |-> TRUE]) :
                                    TextMatches(d, query)}) :
          LET found == SearchFind(ordered, opts) IN
          Reply("search", Anonymous, BadId,
                Json(200, "", NoErrors,
                     [posts |-> found,
                      pagination |-> [page |-> opts.page, limit |-> opts.limit,
                                      total |-> Len(found)]]))
    /\ UNCHANGED <<posts, tasks, nextId, pc, loc>>
    /\ UNCHANGED <<authVars, clientVars, procVars>>

\* req.query.search: absent, empty, one blank, or a word.
SearchTerms == {Undefined, "", " ", "hello"}

\* getPosts in search mode up to `await Post.search(search, {page, limit})`.
SearchCall(p, query, opts) ==
    /\ Free(p)
    /\ Suspend(p, "search", [k |-> "search", query |-> query, opts |-> opts])
    /\ UNCHANGED <<posts, tasks, nextId>>
    /\ UNCHANGED <<authVars, clientVars, procVars>>

\* Post.search runs its find, and getPosts answers.
SearchReturn(p) ==
    /\ pc[p] = "search"
    /\ \E ordered \in Orderings({d \in Matching(posts, [published |-> TRUE]) :
                                    TextMatches(d, loc[p].query)}) :
          LET found == SearchFind(ordered, loc[p].opts) IN
          Reply("search", Anonymous, BadId,
                Json(200, "", NoErrors,
                     [posts |-> found,
                      pagination |-> [page |-> loc[p].opts.page,
                                      limit |-> loc[p].opts.limit,
                                      total |-> Len(found)]]))
    /\ Finish(p)
    /\ UNCHANGED <<posts, tasks, nextId>>
    /\ UNCHANGED <<authVars, clientVars, procVars>>

\* getPosts: `if (search)` chooses Post.search, else Post.paginate with the
\* page and the limit alone.
GetPosts(p, search, opts, first) ==
    IF Truthy(search)
    THEN SearchCall(p, search, opts)
    ELSE PaginateFirst(p, opts, first)

----------------------------------------------------------------------------
(* User documents and their password *)

\* A raw password: its first 72 bytes and the bytes after them (bcrypt reads
\* no more than 72 bytes of its input).
Raw(head, tail) == [k |-> "raw", head |-> head, tail |-> tail]

RawPasswords ==
    {Raw("secret1", ""), Raw("seventy-two bytes", "a"), Raw("seventy-two bytes", "b")}

\* No password key in the request body.
NoPassword == [k |-> "absent"]

Salts == 1..MaxSalts

\* The bytes of its input bcrypt works on; a hash string is 60 bytes.
BcryptKey(s) == IF s.k = "raw" THEN Raw(s.head, "") ELSE s

\* bcrypt.hash(s, salt)
bcryptHash(s, salt) == [k |-> "bcrypt", salt |-> salt, key |-> BcryptKey(s)]

\* bcrypt.compare(s, hash): hashes s with the salt of the hash.
bcryptCompare(s, hash) == hash.k = "bcrypt" /\ bcryptHash(s, hash.salt) = hash

\* comparePassword on a document loaded with its password.
comparePassword(doc, candidate) == bcryptCompare(candidate, doc.password)

\* userSchema.pre('save'): hashes the password when that path is modified.
preSave(doc, mod, salt) ==
    IF "password" \notin mod THEN doc
    ELSE [doc EXCEPT !.password = bcryptHash(@, salt)]

\* The stored user with that _id.
UserById(coll, id) == CHOOSE u \in coll : u._id = id

\* A new user document is built with a raw password and saved (registration,
\* User.create): up to the awaits of the pre-save hook.
UserCreate(p, name, raw) ==
    /\ Free(p)
    /\ Cardinality(users) < MaxUsers
    /\ Suspend(p, "userSave",
          [k |-> "userSave",
           doc |-> [_id |-> Cardinality(users) + 1, name |-> name, password |-> raw],
           mod |-> {"_id", "name", "password"}])
    /\ UNCHANGED <<posts, tasks, nextId>>
    /\ UNCHANGED <<authVars, clientVars, procVars>>

\* A stored user is loaded with its password, given a name and, when the
\* body has one, a new password, and saved (profile update, password
\* change): up to the awaits of the pre-save hook.
UserEdit(p, u, name, password) ==
    /\ Free(p)
    /\ u \in users
    /\ LET d1 == [u EXCEPT !.name = name]
           d2 == IF password = NoPassword THEN d1 ELSE [d1 EXCEPT !.password = password]
       IN  Suspend(p, "userSave",
              [k |-> "userSave", doc |-> d2, mod |-> Modified(u, d2)])
    /\ UNCHANGED <<posts, tasks, nextId>>
    /\ UNCHANGED <<authVars, clientVars, procVars>>

\* The pre-save hook with a fresh salt, then the write of the document.
UserSave(p) ==
    /\ pc[p] = "userSave"
    /\ \E salt \in Salts :
          LET d == preSave(loc[p].doc, loc[p].mod, salt) IN
          /\ users' = {u \in users : u._id # d._id} \cup {d}
          /\ Reply("saveUser", d._id, BadId, Json(200, "", NoErrors, toJSON(d)))
    /\ Finish(p)
    /\ UNCHANGED <<gen, now, issued, req>>
    /\ UNCHANGED <<posts, tasks, nextId>>
    /\ UNCHANGED <<clientVars, procVars>>

----------------------------------------------------------------------------
(* Task controllers *)

\* req.body of a task update: the keys the handler reads.
TaskBodies ==
    [text : {Undefined, "", "hello", "world"},
     completed : {Undefined, "true", "false"}]

\* createTask: Task.create validates and inserts in one store operation.
CreateTask(caller, text) ==
    /\ nextId <= MaxDocs
    /\ LET task == NewTask(nextId, caller, text)
           bad == ValidateTask(task)
       IN  IF bad # {}
           THEN /\ Reply("createTask", caller, nextId, errorHandler(ValidationError(bad)))
                /\ UNCHANGED <<tasks, nextId>>
           ELSE /\ tasks' = [tasks EXCEPT ![nextId] = task]
                /\ nextId' = nextId + 1
                /\ Reply("createTask", caller, nextId,
                         Json(201, "Task created successfully", NoErrors, task))
    /\ UNCHANGED <<posts, pc, loc>>
    /\ UNCHANGED <<authVars, clientVars, procVars>>

\* createTask reads text (and priority, dueDate, tags) from req.body and
\* takes the user from req.userId; no other key of the body is read.
createTask(caller, body) == CreateTask(caller, body.text)

\* req.query.filter of getTasks.
TaskFilters == {Undefined, "all", "active", "completed", "done"}

\* The query of getTasks without its user condition.
getTasksQueryUnscoped(userId, filter) ==
    IF filter = "active" THEN [completed |-> FALSE]
    ELSE IF filter = "completed" THEN [completed |-> TRUE]
    ELSE EmptyFilter

\* The query document getTasks builds: the caller's tasks, narrowed on
\* completed for the filters 'active' and 'completed'.
getTasksQuery(userId, filter) ==
    IF filter = "active" THEN [user |-> userId, completed |-> FALSE]
    ELSE IF filter = "completed" THEN [user |-> userId, completed |-> TRUE]
    ELSE [user |-> userId]

\* getTasks up to `await Task.find(query).sort({createdAt: -1})`.
GetTasksFind(p, caller, filter) ==
    /\ Free(p)
    /\ Suspend(p, "getTasks",
          [k |-> "getTasks", caller |-> caller, filter |-> filter,
           query |-> getTasksQuery(caller, filter)])
    /\ UNCHANGED <<posts, tasks, nextId>>
    /\ UNCHANGED <<authVars, clientVars, procVars>>

\* The find of getTasks and its response.
GetTasksReturn(p) ==
    /\ pc[p] = "getTasks"
    /\ LET found == SortNewestFirst(Matching(tasks, loc[p].query)) IN
       Reply("getTasks", loc[p].caller, BadId,
             Json(200, "", NoErrors, [count |-> Len(found), tasks |-> found]))
    /\ Finish(p)
    /\ UNCHANGED <<posts, tasks, nextId>>
    /\ UNCHANGED <<authVars, clientVars, procVars>>

\* What getStats returns from the results of its two count queries.
StatsResult(total, completed) ==
    [total |-> total, completed |-> completed, active |-> total - completed]

\* getTaskStats into Task.getStats, up to the end of its first await:
\* countDocuments({user: userId}).
GetStatsTotal(p, caller) ==
    /\ Free(p)
    /\ Suspend(p, "getStats",
          [k |-> "getStats", caller |-> caller,
           total |-> Cardinality(Matching(tasks, [user |-> caller]))])
    /\ UNCHANGED <<posts, tasks, nextId>>
    /\ UNCHANGED <<authVars, clientVars, procVars>>

\* The second await of getStats, countDocuments({user: userId, completed:
\* true}), and the response of getTaskStats.
GetStatsCompleted(p) ==
    /\ pc[p] = "getStats"
    /\ LET completed == Cardinality(Matching(tasks,
                            [user |-> loc[p].caller, completed |-> TRUE]))
       IN  Reply("getTaskStats", loc[p].caller, BadId,
                 Json(200, "", NoErrors,
                      [stats |-> StatsResult(loc[p].total, completed)]))
    /\ Finish(p)
    /\ UNCHANGED <<posts, tasks, nextId>>
    /\ UNCHANGED <<authVars, clientVars, procVars>>

\* getMyPosts: Post.find({author: req.userId}).sort({createdAt: -1}).
GetMyPosts(caller) ==
    /\ LET found == SortNewestFirst(Matching(posts, [author |-> caller])) IN
       Reply("getMyPosts", caller, BadId,
             Json(200, "", NoErrors, [count |-> Len(found), posts |-> found]))
    /\ UNCHANGED <<posts, tasks, nextId, pc, loc>>
    /\ UNCHANGED <<authVars, clientVars, procVars>>

\* The assignments of updateTask to the loaded document.
updateTaskAssign(task, body) ==
    LET d1 == IF body.text # Undefined
              THEN [task EXCEPT !.text = body.text] ELSE task
    IN  IF body.completed # Undefined
        THEN [d1 EXCEPT !.completed = CastBoolean(body.completed)] ELSE d1

\* updateTask up to `await task.save()`.
UpdateTaskFind(p, caller, id, body) ==
    /\ Free(p)
    /\ IF id = BadId
       THEN /\ Reply("updateTask", caller, id, errorHandler(CastError))
            /\ UNCHANGED <<pc, loc>>
       ELSE LET task == FindOwned(tasks, id, "user", caller) IN
            IF task = NoDoc
            THEN /\ Reply("updateTask", caller, id, Json(404, "Task not found", NoErrors, Null))
                 /\ UNCHANGED <<pc, loc>>
            ELSE /\ Suspend(p, "updateTask",
                       [k |-> "update", caller |-> caller, id |-> id, body |-> body,
                        doc |-> updateTaskAssign(task, body),
                        mod |-> Modified(task, updateTaskAssign(task, body))])
    /\ UNCHANGED <<posts, tasks, nextId>>
    /\ UNCHANGED <<authVars, clientVars, procVars>>

\* task.save() and the response.
UpdateTaskSave(p) ==
    /\ pc[p] = "updateTask"
    /\ LET l == loc[p]
           bad == ValidateTask(l.doc)
       IN  IF bad # {}
           THEN /\ Reply("updateTask", l.caller, l.id, errorHandler(ValidationError(bad)))
                /\ UNCHANGED tasks
           ELSE IF tasks[l.id] = NoDoc
           THEN /\ Reply("updateTask", l.caller, l.id, errorHandler(DocumentNotFoundError))
                /\ UNCHANGED tasks
           ELSE /\ tasks' = [tasks EXCEPT ![l.id] = SetPaths(@, l.doc, l.mod)]
                /\ Reply("updateTask", l.caller, l.id,
                         Json(200, "Task updated successfully", NoErrors, l.doc))
    /\ Finish(p)
    /\ UNCHANGED <<posts, nextId>>
    /\ UNCHANGED <<authVars, clientVars, procVars>>

\* deleteTask with Task.deleteMany({user}) in place of the lookup by id.
DeleteTaskMany(caller, id) ==
    /\ IF id = BadId
       THEN /\ Reply("deleteTask", caller, id, errorHandler(CastError))
            /\ UNCHANGED tasks
       ELSE IF FindOwned(tasks, id, "user", caller) = NoDoc
       THEN /\ Reply("deleteTask", caller, id, Json(404, "Task not found", NoErrors, Null))
            /\ UNCHANGED tasks
       ELSE /\ tasks' = [i \in Ids |->
                            IF tasks[i] # NoDoc /\ tasks[i].user = caller
                            THEN NoDoc ELSE tasks[i]]
            /\ Reply("deleteTask", caller, id,
                     Json(200, "Task deleted successfully", NoErrors, Null))
    /\ UNCHANGED <<posts, nextId, pc, loc>>
    /\ UNCHANGED <<authVars, clientVars, procVars>>

\* deleteTask: one findOneAndDelete scoped to the owner.
DeleteTask(caller, id) ==
    /\ IF id = BadId
       THEN /\ Reply("deleteTask", caller, id, errorHandler(CastError))
            /\ UNCHANGED tasks
       ELSE IF FindOwned(tasks, id, "user", caller) = NoDoc
       THEN /\ Reply("deleteTask", caller, id, Json(404, "Task not found", NoErrors, Null))
            /\ UNCHANGED tasks
       ELSE /\ tasks' = [tasks EXCEPT ![id] = NoDoc]
            /\ Reply("deleteTask", caller, id,
                     Json(200, "Task deleted successfully", NoErrors, Null))
    /\ UNCHANGED <<posts, nextId, pc, loc>>
    /\ UNCHANGED <<authVars, clientVars, procVars>>

----------------------------------------------------------------------------
(* asyncHandler, the error path and the process-level handlers *)

\* What the promise of an async handler settles to: fulfilled once the
\* handler has sent its response, or rejected with what an await threw.
Fulfilled(res) == [k |-> "fulfilled", res |-> res]
Rejected(err) == [k |-> "rejected", err |-> err]

\* An error of the store driver with no name the error handler knows.
StoreError == Err("MongoNetworkError", "connection closed", {})

\* The wrapped handlers of the post controller and the tasks they await.
Handlers == {"getPosts", "getPost", "createPost", "updatePost", "deletePost"}

\* What the awaits of each handler can throw: the cast of req.params.id, the
\* validators behind create and save, the save of a document that is gone,
\* and the driver on every store operation.
RejectionsOf(h) ==
    {StoreError}
      \cup (IF h \in {"getPost", "updatePost", "deletePost"} THEN {CastError} ELSE {})
      \cup (IF h \in {"createPost", "updatePost"}
            THEN {ValidationError(ValidatePost(NewPost(1, Jane, t))) : t \in {"", "hi"}}
            ELSE {})
      \cup (IF h \in {"getPost", "updatePost"} THEN {DocumentNotFoundError} ELSE {})

\* The responses the handlers send themselves.
ResponsesOf(h) ==
    {Json(IF h = "createPost" THEN 201 ELSE 200, "", NoErrors, Null)}
      \cup (IF h \in {"getPost", "updatePost", "deletePost"}
            THEN {Json(404, "Post not found", NoErrors, Null)} ELSE {})

SettlesTo(h) ==
    {Fulfilled(r) : r \in ResponsesOf(h)} \cup {Rejected(e) : e \in RejectionsOf(h)}

\* The wrapper without its catch: fn(req, res, next) alone.
asyncHandlerNoCatch(result) == <<>>

\* asyncHandler: Promise.resolve(fn(req, res, next)).catch(next).  The errors
\* next is called with, in order.
asyncHandler(result) ==
    IF result.k = "rejected" THEN <<result.err>> ELSE <<>>

\* A rejection nobody catches reaches process.on('unhandledRejection'),
\* which closes the server and exits.
Escapes(result) == result.k = "rejected" /\ asyncHandler(result) = <<>>

\* A request enters a wrapped handler, which runs up to its first await.
Enter(p, h) ==
    /\ server = "listening"
    /\ Free(p)
    /\ Suspend(p, "handler", [k |-> "handler", op |-> h])
    /\ UNCHANGED <<posts, tasks, nextId, server>>
    /\ UNCHANGED <<authVars, clientVars>>

\* The handler's promise settles.  A fulfilled handler has sent its
\* response; Express passes each error given to next to errorHandler, which
\* sends one; `last` keeps the response with the calls of next and the
\* number of responses sent for the request.
Settle(p, result) ==
    /\ pc[p] = "handler"
    /\ result \in SettlesTo(loc[p].op)
    /\ LET errs == asyncHandler(result)
           sent == (IF result.k = "fulfilled" THEN <<result.res>> ELSE <<>>)
                      \o [i \in 1..Len(errs) |-> errorHandler(errs[i])]
       IN  /\ last' = [op |-> loc[p].op, slot |-> p, result |-> result,
                        nexts |-> errs, responses |-> sent]
           /\ server' = IF Escapes(result) THEN "closing" ELSE server
    /\ Finish(p)
    /\ UNCHANGED <<posts, tasks, nextId>>
    /\ UNCHANGED <<authVars, clientVars>>

----------------------------------------------------------------------------
(* The browser: AuthProvider and ProtectedRoute *)

\* JSON.stringify of a value, and JSON.parse of such a string.
JSONstringify(v) == [k |-> "json", of |-> v]
JSONparse(str) == str.of

\* The password seed.js gives every user.
SeedPassword == "password123"

\* The credentials typed into the login and register forms.
Credentials ==
    [name : {"Ann"}, email : {SeedEmails[2], "ann@x.com"},
     password : {SeedPassword, "wrong"}]

\* The `user` object of a login or register response.
UserData(u) ==
    [id |-> u._id, name |-> u.name, email |-> u.email, role |-> u.role]

\* The slot a new call takes: any that holds no call under way.
FreeCall(c) == calls[c].k \in {"none", "done"}

Pending(c, kinds) == calls[c].k \in kinds /\ calls[c].res = Null

Answered(c, kinds) == calls[c].k \in kinds /\ calls[c].res # Null

\* A response of the server as fetch hands it over; status 0 is a fetch that
\* rejects (no connection).
Response(status, data) == [status |-> status, ok |-> status \in 200..299, data |-> data]
NetworkError == Response(0, Null)

\* AuthProvider's effect on mount: the stored pair is taken over when both
\* entries exist, and loading ends.
Mount ==
    /\ authState.loading
    /\ authState' =
          IF localStorage.token # Null /\ localStorage.user # Null
          THEN [user |-> JSONparse(localStorage.user),
                token |-> localStorage.token, loading |-> FALSE]
          ELSE [authState EXCEPT !.loading = FALSE]
    /\ UNCHANGED <<localStorage, taskState, pageState, calls>>
    /\ UNCHANGED <<authVars, storeVars, procVars>>

\* login(email, password) and register(name, email, password) up to
\* `await fetch(...)`.  The field `overtaken` is history the code does not
\* keep: whether logout has run since the call started.
AuthCall(c, kind, cred) ==
    /\ ~authState.loading
    /\ FreeCall(c)
    /\ calls' = [calls EXCEPT ![c] =
                    [k |-> kind, cred |-> cred, res |-> Null, overtaken |-> FALSE]]
    /\ UNCHANGED <<authState, localStorage, taskState, pageState>>
    /\ UNCHANGED <<authVars, storeVars, procVars>>

\* POST /api/auth/login on the server: 200 with {user, token} when a user
\* has the email and the password matches, 401 otherwise.
ServeLogin(c) ==
    /\ Pending(c, {"login"})
    /\ LET cred == calls[c].cred
           found == {u \in users : u.email = cred.email}
       IN  IF found # {} /\ cred.password = SeedPassword
           THEN LET u == CHOOSE u \in found : TRUE
                    t == generateAuthToken(u)
                IN  /\ t \in issued \/ Cardinality(issued) < MaxSessions
                    /\ issued' = issued \cup {t}
                    /\ calls' = [calls EXCEPT ![c].res =
                                    Response(200, [user |-> UserData(u), token |-> t])]
           ELSE /\ calls' = [calls EXCEPT ![c].res = Response(401, Null)]
                /\ UNCHANGED issued
    /\ UNCHANGED <<users, gen, now, req>>
    /\ UNCHANGED <<authState, localStorage, taskState, pageState>>
    /\ UNCHANGED <<storeVars, procVars>>

\* POST /api/auth/register on the server: 201 with {user, token} for a new
\* email, 400 when the email is taken.
ServeRegister(c) ==
    /\ Pending(c, {"register"})
    /\ LET cred == calls[c].cred IN
       IF \E u \in users : u.email = cred.email
       THEN /\ calls' = [calls EXCEPT ![c].res = Response(400, Null)]
            /\ UNCHANGED <<users, issued>>
       ELSE LET u == [_id |-> (gen + 1) * SeedUsers + 1, name |-> cred.name,
                      email |-> cred.email, role |-> "user", password |-> "hash"]
                t == generateAuthToken(u)
            IN  /\ t \in issued \/ Cardinality(issued) < MaxSessions
                /\ users' = users \cup {u}
                /\ issued' = issued \cup {t}
                /\ calls' = [calls EXCEPT ![c].res =
                                Response(201, [user |-> UserData(u), token |-> t])]
    /\ UNCHANGED <<gen, now, req>>
    /\ UNCHANGED <<authState, localStorage, taskState, pageState>>
    /\ UNCHANGED <<storeVars, procVars>>

\* The fetch of a call under way rejects: the request or its response is lost.
FetchFails(c) ==
    /\ calls[c].k \notin {"none", "done"}
    /\ calls[c].res # NetworkError
    /\ calls' = [calls EXCEPT ![c].res = NetworkError]
    /\ UNCHANGED <<authState, localStorage, taskState, pageState>>
    /\ UNCHANGED <<authVars, storeVars, procVars>>

\* What a finished call leaves in its slot: the value it returned.
Done(kind, ret) == [k |-> "done", of |-> kind, ret |-> ret]

\* login and register writing the token and the user to the state alone.
AuthSettleStateOnly(c) ==
    /\ Answered(c, {"login", "register"})
    /\ LET res == calls[c].res IN
       IF res.ok
       THEN /\ authState' = [authState EXCEPT !.token = res.data.token,
                                              !.user = res.data.user]
            /\ calls' = [calls EXCEPT ![c] =
                            Done(calls[c].k, [success |-> TRUE, data |-> res.data])]
            /\ UNCHANGED localStorage
       ELSE /\ calls' = [calls EXCEPT ![c] =
                            Done(calls[c].k, [success |-> FALSE, data |-> Null])]
            /\ UNCHANGED <<authState, localStorage>>
    /\ UNCHANGED <<taskState, pageState>>
    /\ UNCHANGED <<authVars, storeVars, procVars>>

\* login and register after their awaits: on an OK response the token and the
\* user go to the state and to localStorage; anything else is caught and
\* {success: false} is returned.
AuthSettle(c) ==
    /\ Answered(c, {"login", "register"})
    /\ LET res == calls[c].res IN
       IF res.ok
       THEN /\ authState' = [authState EXCEPT !.token = res.data.token,
                                              !.user = res.data.user]
            /\ localStorage' = [token |-> res.data.token,
                                user |-> JSONstringify(res.data.user)]
            /\ calls' = [calls EXCEPT ![c] =
                            Done(calls[c].k, [success |-> TRUE, data |-> res.data])]
       ELSE /\ calls' = [calls EXCEPT ![c] =
                            Done(calls[c].k, [success |-> FALSE, data |-> Null])]
            /\ UNCHANGED <<authState, localStorage>>
    /\ UNCHANGED <<taskState, pageState>>
    /\ UNCHANGED <<authVars, storeVars, procVars>>

\* logout(): the state and both localStorage entries are cleared.  No
\* request is sent and no call under way is cancelled.
Logout ==
    /\ ~authState.loading
    /\ authState' = [authState EXCEPT !.user = Null, !.token = Null]
    /\ localStorage' = [token |-> Null, user |-> Null]
    /\ calls' = [c \in CallIds |->
                    IF calls[c].k \in {"login", "register"}
                    THEN [calls[c] EXCEPT !.overtaken = TRUE] ELSE calls[c]]
    /\ UNCHANGED <<taskState, pageState>>
    /\ UNCHANGED <<authVars, storeVars, procVars>>

\* const isAuthenticated = !!token && !!user
isAuthenticated(st) == st.token # Null /\ st.user # Null

\* ProtectedRoute without its loading branch.
ProtectedRouteNoSpinner(st) ==
    IF ~isAuthenticated(st) THEN "Navigate to /login" ELSE "children"

\* What ProtectedRoute returns for a context value.
ProtectedRoute(st) ==
    IF st.loading THEN "spinner"
    ELSE IF ~isAuthenticated(st) THEN "Navigate to /login"
    ELSE "children"

----------------------------------------------------------------------------
(* The browser: useTaskManager *)

\* The user the browser is logged in as.
Me == Jane

\* The texts typed into the task form and the edit field.
TaskTexts == {"hello", " "}

\* tasks.find((t) => t._id === id) on a list: the task, or NoDoc.
FindInList(list, id) ==
    IF \E i \in 1..Len(list) : list[i]._id = id
    THEN list[CHOOSE i \in 1..Len(list) : list[i]._id = id]
    ELSE NoDoc

\* The request each function of the hook sends for its arguments, with the
\* list it closed over; NoCall when it returns without sending one.
TaskRequest(kind, id, text, list) ==
    LET call == [k |-> kind, id |-> id, text |-> text, tasks |-> list,
                 body |-> [text |-> Undefined, completed |-> Undefined],
                 res |-> Null]
    IN  CASE kind = "addTask" ->
               IF Trim(text) = "" THEN NoCall
               ELSE [call EXCEPT !.id = BadId, !.body.text = text]
          [] kind = "toggleTask" ->
               IF FindInList(list, id) = NoDoc THEN NoCall
               ELSE [call EXCEPT !.text = Undefined, !.body.completed =
                        IF FindInList(list, id).completed THEN "false" ELSE "true"]
          [] kind = "updateTaskText" ->
               IF Trim(text) = "" THEN NoCall
               ELSE [call EXCEPT !.body.text = text]
          [] kind = "removeTask" -> [call EXCEPT !.text = Undefined]

\* addTask, toggleTask, updateTaskText (through saveEdit) and removeTask up
\* to their await.  The form is rendered only when loading is over.
TaskCall(c, kind, id, text) ==
    /\ ~taskState.loading
    /\ FreeCall(c)
    /\ TaskRequest(kind, id, text, taskState.tasks) # NoCall
    /\ calls' = [calls EXCEPT ![c] = TaskRequest(kind, id, text, taskState.tasks)]
    /\ UNCHANGED <<authState, localStorage, taskState, pageState>>
    /\ UNCHANGED <<authVars, storeVars, procVars>>

\* fetchTasks up to `await getTasks('all')`, from the Refresh button.
FetchTasksCall(c) ==
    /\ ~taskState.loading
    /\ FreeCall(c)
    /\ taskState' = [taskState EXCEPT !.loading = TRUE, !.error = Null]
    /\ calls' = [calls EXCEPT ![c] = [k |-> "fetchTasks", res |-> Null]]
    /\ UNCHANGED <<authState, localStorage, pageState>>
    /\ UNCHANGED <<authVars, storeVars, procVars>>

\* The task routes on the server, for the request of a call: getTasks,
\* createTask, updateTask and deleteTask with req.userId the logged-in user.
\* The response is kept in the call until the browser reads it.
ServeTask(c) ==
    /\ Pending(c, {"fetchTasks", "addTask", "toggleTask", "updateTaskText",
                   "removeTask"})
    /\ LET call == calls[c]
           Answer(r) == calls' = [calls EXCEPT ![c].res = r]
       IN  CASE call.k = "fetchTasks" ->
                  /\ Answer(Response(200,
                        SortNewestFirst(Matching(tasks, getTasksQuery(Me, "all")))))
                  /\ UNCHANGED <<tasks, nextId>>
             [] call.k = "addTask" ->
                  /\ nextId <= MaxDocs
                  /\ LET task == NewTask(nextId, Me, call.body.text) IN
                     IF ValidateTask(task) # {}
                     THEN /\ Answer(Response(400, Null))
                          /\ UNCHANGED <<tasks, nextId>>
                     ELSE /\ tasks' = [tasks EXCEPT ![nextId] = task]
                          /\ nextId' = nextId + 1
                          /\ Answer(Response(201, task))
             [] call.k \in {"toggleTask", "updateTaskText"} ->
                  /\ LET found == FindOwned(tasks, call.id, "user", Me)
                         task == updateTaskAssign(found, call.body)
                     IN  IF found = NoDoc
                         THEN /\ Answer(Response(404, Null))
                              /\ UNCHANGED tasks
                         ELSE IF ValidateTask(task) # {}
                         THEN /\ Answer(Response(400, Null))
                              /\ UNCHANGED tasks
                         ELSE /\ tasks' = [tasks EXCEPT ![call.id] = task]
                              /\ Answer(Response(200, task))
                  /\ UNCHANGED nextId
             [] call.k = "removeTask" ->
                  /\ IF FindOwned(tasks, call.id, "user", Me) = NoDoc
                     THEN /\ Answer(Response(404, Null))
                          /\ UNCHANGED tasks
                     ELSE /\ tasks' = [tasks EXCEPT ![call.id] = NoDoc]
                          /\ Answer(Response(200, Null))
                  /\ UNCHANGED nextId
    /\ UNCHANGED <<posts, pc, loc, last>>
    /\ UNCHANGED <<authState, localStorage, taskState, pageState>>
    /\ UNCHANGED <<authVars, procVars>>

\* tasks.map((t) => (t._id === id ? updatedTask : t))
ReplaceInList(list, id, task) ==
    [i \in 1..Len(list) |-> IF list[i]._id = id THEN task ELSE list[i]]

\* tasks.filter((t) => t._id !== id)
RemoveFromList(list, id) == SelectSeq(list, LAMBDA t : t._id # id)

\* The list a function of the hook passes to setTasks after its await, from
\* the list it closed over and the task in the response.
NextTasks(call) ==
    CASE call.k = "fetchTasks" -> call.res.data
      [] call.k = "addTask" -> <<call.res.data>> \o call.tasks
      [] call.k \in {"toggleTask", "updateTaskText"} ->
           ReplaceInList(call.tasks, call.id, call.res.data)
      [] call.k = "removeTask" -> RemoveFromList(call.tasks, call.id)

\* A function of the hook after its await: setTasks on an OK response,
\* setError in the catch; fetchTasks ends loading either way.
TaskSettle(c) ==
    /\ Answered(c, {"fetchTasks", "addTask", "toggleTask", "updateTaskText",
                    "removeTask"})
    /\ LET call == calls[c]
           s1 == IF call.res.ok
                 THEN [taskState EXCEPT !.tasks = NextTasks(call)]
                 ELSE [taskState EXCEPT !.error = [k |-> "string", v |-> "Failed"]]
       IN  /\ taskState' = IF call.k = "fetchTasks"
                           THEN [s1 EXCEPT !.loading = FALSE] ELSE s1
           /\ calls' = [calls EXCEPT ![c] =
                           Done(call.k, [success |-> call.res.ok, data |-> Null])]
    /\ UNCHANGED <<authState, localStorage, pageState>>
    /\ UNCHANGED <<authVars, storeVars, procVars>>

----------------------------------------------------------------------------
(* The browser: the Posts page *)

POSTS_PER_PAGE == 9

\* What is typed into the search box.
SearchInputs == {"", " ", "hello", "web"}

\* The data getPosts of the server can answer for a page, a limit and a
\* search term, from a collection: {posts, pagination} of Post.search (no
\* `pages` in its pagination) or of Post.paginate.
getPostsData(coll, page, limit, search) ==
    LET opts == [page |-> page, limit |-> limit, filter |-> EmptyFilter] IN
    IF Truthy(search)
    THEN {[posts |-> SearchFind(ordered, opts),
           pagination |-> [page |-> page, limit |-> limit,
                           total |-> Len(SearchFind(ordered, opts))]] :
            ordered \in Orderings({d \in Matching(coll, [published |-> TRUE]) :
                                      TextMatches(d, search)})}
    ELSE {PaginateResult(opts, PaginateFind(coll, opts), PaginateCount(coll, opts))}

\* data.pagination.pages as setTotalPages receives it.
PagesOf(pagination) ==
    IF "pages" \in DOMAIN pagination THEN Num(pagination.pages) ELSE NotANumber

\* loadPosts up to `await getPosts(currentPage, POSTS_PER_PAGE, isSearching ?
\* searchQuery : '')`, with the values of the render that created it.
LoadPostsRequest(st) ==
    [k |-> "loadPosts", id |-> BadId, page |-> st.currentPage,
     search |-> IF st.isSearching THEN st.searchQuery ELSE "", res |-> Null]

\* A render after a handler has set the state to `next`: the effect runs
\* loadPosts when currentPage or isSearching changed, and not otherwise.
Rerender(c, next) ==
    /\ IF next.currentPage # pageState.currentPage
          \/ next.isSearching # pageState.isSearching
       THEN /\ FreeCall(c)
            /\ pageState' = [next EXCEPT !.loading = TRUE, !.error = Null]
            /\ calls' = [calls EXCEPT ![c] = LoadPostsRequest(next)]
       ELSE /\ pageState' = next
            /\ UNCHANGED calls
    /\ UNCHANGED <<authState, localStorage, taskState>>
    /\ UNCHANGED <<authVars, storeVars, procVars>>

\* onChange of the search box.  While loading the page renders only the
\* spinner, so no handler of the page can run.
setSearchQuery(q) ==
    /\ ~pageState.loading
    /\ pageState' = [pageState EXCEPT !.searchQuery = q]
    /\ UNCHANGED <<authState, localStorage, taskState, calls>>
    /\ UNCHANGED <<authVars, storeVars, procVars>>

\* handleSearch, and the render after it.
handleSearch(c) ==
    /\ ~pageState.loading
    /\ Rerender(c,
          IF Trim(pageState.searchQuery) = ""
          THEN [pageState EXCEPT !.isSearching = FALSE, !.currentPage = 1,
                                 !.submitted = ""]
          ELSE [pageState EXCEPT !.isSearching = TRUE, !.currentPage = 1,
                                 !.submitted = pageState.searchQuery])

\* clearSearch, from the Clear button that search mode shows.
clearSearch(c) ==
    /\ ~pageState.loading
    /\ pageState.isSearching
    /\ Rerender(c, [pageState EXCEPT !.searchQuery = "", !.isSearching = FALSE,
                                     !.currentPage = 1, !.submitted = ""])

\* The pagination controls are rendered.
ControlsShown(st) ==
    /\ ~st.loading
    /\ ~st.isSearching
    /\ Len(st.posts) > 0
    /\ st.totalPages.k = "number"
    /\ st.totalPages.v > 1

goToNextPage(c) ==
    /\ ControlsShown(pageState)
    /\ pageState.currentPage < pageState.totalPages.v
    /\ Rerender(c, [pageState EXCEPT !.currentPage = pageState.currentPage + 1])

goToPreviousPage(c) ==
    /\ ControlsShown(pageState)
    /\ pageState.currentPage > 1
    /\ Rerender(c, [pageState EXCEPT !.currentPage = pageState.currentPage - 1])

\* The page numbers the controls offer: at most five, around the current page.
PageNumbers(currentPage, totalPages) ==
    {IF totalPages <= 5 \/ currentPage <= 3 THEN index + 1
     ELSE IF currentPage >= totalPages - 2 THEN totalPages - 4 + index
     ELSE currentPage - 2 + index :
        index \in 0..((IF totalPages < 5 THEN totalPages ELSE 5) - 1)}

goToPage(c, page) ==
    /\ ControlsShown(pageState)
    /\ page \in PageNumbers(pageState.currentPage, pageState.totalPages.v)
    /\ Rerender(c, [pageState EXCEPT !.currentPage = page])

\* isOwnPost: the Delete button of a post is shown to its author.
isOwnPost(post) ==
    /\ isAuthenticated(authState)
    /\ post.author = authState.user.id

\* handleDeletePost, confirmed, up to `await deletePost(postId)`; the call
\* keeps the values of the render that created it for its loadPosts.
handleDeletePost(c, i) ==
    /\ ~pageState.loading
    /\ i \in 1..Len(pageState.posts)
    /\ isOwnPost(pageState.posts[i])
    /\ FreeCall(c)
    /\ calls' = [calls EXCEPT ![c] =
          [LoadPostsRequest(pageState) EXCEPT !.k = "deletePost",
                                              !.id = pageState.posts[i]._id]]
    /\ UNCHANGED <<authState, localStorage, taskState, pageState>>
    /\ UNCHANGED <<authVars, storeVars, procVars>>

\* The post routes on the server, for the request of a call: getPosts, and
\* deletePost with req.userId the logged-in user.
ServePosts(c) ==
    /\ Pending(c, {"loadPosts", "deletePost"})
    /\ LET call == calls[c]
           Answer(r) == calls' = [calls EXCEPT ![c].res = r]
       IN  CASE call.k = "loadPosts" ->
                  /\ \E data \in getPostsData(posts, call.page, POSTS_PER_PAGE,
                                              call.search) :
                        Answer(Response(200, data))
                  /\ UNCHANGED posts
             [] call.k = "deletePost" ->
                  IF \/ call.id \notin DOMAIN posts
                     \/ posts[call.id] = NoDoc
                     \/ posts[call.id].author # authState.user.id
                  THEN /\ Answer(Response(404, Null))
                       /\ UNCHANGED posts
                  ELSE /\ posts' = [posts EXCEPT ![call.id] = NoDoc]
                       /\ Answer(Response(200, Null))
    /\ UNCHANGED <<tasks, nextId, pc, loc, last>>
    /\ UNCHANGED <<authState, localStorage, taskState, pageState>>
    /\ UNCHANGED <<authVars, procVars>>

\* handleDeletePost after its await: loadPosts of the render that created the
\* handler on an OK response, setError in the catch.
DeleteSettle(c) ==
    /\ Answered(c, {"deletePost"})
    /\ IF calls[c].res.ok
       THEN /\ pageState' = [pageState EXCEPT !.loading = TRUE, !.error = Null]
            /\ calls' = [calls EXCEPT ![c].k = "loadPosts", ![c].id = BadId,
                                      ![c].res = Null]
       ELSE /\ pageState' = [pageState EXCEPT !.error =
                                [k |-> "string", v |-> "Failed to delete post"]]
            /\ calls' = [calls EXCEPT ![c] = Done("deletePost", Null)]
    /\ UNCHANGED <<authState, localStorage, taskState>>
    /\ UNCHANGED <<authVars, storeVars, procVars>>

\* loadPosts after its await: setPosts and setTotalPages on an OK response,
\* setError in the catch, setLoading(false) in the finally.
LoadSettle(c) ==
    /\ Answered(c, {"loadPosts"})
    /\ pageState' =
          IF calls[c].res.ok
          THEN [pageState EXCEPT !.posts = calls[c].res.data.posts,
                                 !.totalPages = PagesOf(calls[c].res.data.pagination),
                                 !.loading = FALSE]
          ELSE [pageState EXCEPT !.error =
                                    [k |-> "string", v |-> "Failed to load posts"],
                                 !.loading = FALSE]
    /\ calls' = [calls EXCEPT ![c] = Done("loadPosts", Null)]
    /\ UNCHANGED <<authState, localStorage, taskState>>
    /\ UNCHANGED <<authVars, storeVars, procVars>>

----------------------------------------------------------------------------
(* Specifications *)

Init == AuthInit /\ StoreInit /\ ClientInit /\ ProcInit

\* The request bodies of the interleaved specification: one that changes
\* both paths of a document.
SomePostBodies ==
    {b \in PostBodies : b.title = "world" /\ b.published = "false"}

SomeTaskBodies ==
    {b \in TaskBodies : b.text = "world" /\ b.completed = "true"}

\* The ownership-scoped controllers of both resources, interleaved.
Next ==
    \/ \E c \in Callers, t \in {"", "hello"} : CreatePost(c, t)
    \/ \E p \in Procs, c \in Callers, i \in IdParams, b \in SomePostBodies :
          UpdatePostFind(p, c, i, b)
    \/ \E p \in Procs : UpdatePostSave(p)
    \/ \E c \in Callers, i \in IdParams : DeletePost(c, i)
    \/ \E c \in Callers, t \in {"", "hello"} : CreateTask(c, t)
    \/ \E p \in Procs, c \in Callers, i \in IdParams, b \in SomeTaskBodies :
          UpdateTaskFind(p, c, i, b)
    \/ \E p \in Procs : UpdateTaskSave(p)
    \/ \E c \in Callers, i \in IdParams : DeleteTask(c, i)

Spec == Init /\ [][Next]_vars

\* The options paginate and search are called with.
Filters == {EmptyFilter, [published |-> FALSE], [author |-> Jane]}
Options(pages, limits, filters) == [page : pages, limit : limits, filter : filters]

AllIdle == \A p \in Procs : pc[p] = "idle"

\* Every controller, each request handled to its response before the next
\* one starts (no interleaving of handlers).  Post.paginate is called with
\* every options value it accepts, a filter included; getPosts passes none.
SeqNext ==
    \/ AllIdle /\ \E c \in Callers, t \in {Undefined, "hi", "hello"} : CreatePost(c, t)
    \/ AllIdle /\ \E p \in Procs, c \in Callers, i \in IdParams, b \in PostBodies :
          UpdatePostFind(p, c, i, b)
    \/ \E p \in Procs : UpdatePostSave(p)
    \/ AllIdle /\ \E c \in Callers, i \in IdParams : DeletePost(c, i)
    \/ AllIdle /\ \E p \in Procs, c \in Callers \cup {Anonymous}, i \in IdParams :
          GetPostFind(p, c, i)
    \/ \E p \in Procs : GetPostSave(p)
    \/ AllIdle /\ \E p \in Procs, o \in Options(1..MaxDocs, 1..MaxDocs, Filters),
                     f \in {"find", "count"} : PaginateFirst(p, o, f)
    \/ \E p \in Procs : PaginateSecond(p)
    \/ AllIdle /\ \E q \in {"hello", "world"},
                     o \in Options(1..MaxDocs, 1..MaxDocs, {EmptyFilter}) : Search(q, o)
    \/ AllIdle /\ \E c \in Callers, t \in {"", "hello"} : CreateTask(c, t)
    \/ AllIdle /\ \E p \in Procs, c \in Callers, i \in IdParams, b \in TaskBodies :
          UpdateTaskFind(p, c, i, b)
    \/ \E p \in Procs : UpdateTaskSave(p)
    \/ AllIdle /\ \E c \in Callers, i \in IdParams : DeleteTask(c, i)

SeqSpec == Init /\ [][SeqNext]_vars

\* The requests that touch one post, interleaved: reads that count views,
\* updates and deletes by the author.
ViewNext ==
    \/ \E c \in Callers, t \in {"hello"} : CreatePost(c, t)
    \/ \E p \in Procs, c \in Callers \cup {Anonymous}, i \in Ids : GetPostFind(p, c, i)
    \/ \E p \in Procs : GetPostSave(p)
    \/ \E p \in Procs, c \in Callers, i \in Ids, b \in SomePostBodies :
          UpdatePostFind(p, c, i, b)
    \/ \E p \in Procs : UpdatePostSave(p)
    \/ \E c \in Callers, i \in Ids : DeletePost(c, i)

ViewSpec == Init /\ [][ViewNext]_vars

\* Collections for the listing statics: up to MaxListed posts by one author,
\* each published, unpublished or deleted, and ScenarioPosts published ones.
ListedPost(i, published) == [NewPost(i, Jane, "hello") EXCEPT !.published = published]

Collections ==
    UNION {[1..n -> {NoDoc} \cup {ListedPost(0, b) : b \in BOOLEAN}] : n \in 0..MaxListed}

Stamp(coll) ==
    [i \in DOMAIN coll |->
        IF coll[i] = NoDoc THEN NoDoc ELSE ListedPost(i, coll[i].published)]

PagInit ==
    /\ AuthInit
    /\ ClientInit /\ ProcInit
    /\ posts \in {Stamp(c) : c \in Collections}
                    \cup {[i \in 1..ScenarioPosts |-> ListedPost(i, TRUE)]}
    /\ tasks = [i \in Ids |-> NoDoc]
    /\ nextId = 1
    /\ pc = [p \in Procs |-> "idle"]
    /\ loc = [p \in Procs |-> Idle]
    /\ last = Null

\* paginate as getPosts calls it, on a collection that does not change.
PagNext ==
    \/ AllIdle /\ \E p \in Procs,
                     o \in Options(1..MaxPage, 1..MaxLimit \cup {DefaultLimit}, {EmptyFilter}),
                     f \in {"find", "count"} : PaginateFirst(p, o, f)
    \/ \E p \in Procs : PaginateSecond(p)

PagSpec == PagInit /\ [][PagNext]_vars


\* Request bodies that also carry keys no handler reads: an owner, and
\* preset values of the paths that have defaults.
OwnerPostBodies ==
    [title : {"hi", "hello"}, published : {"false"}, views : {"9"},
     author : Callers]

OwnerTaskBodies ==
    [text : {"", "hello"}, completed : {"true"}, user : Callers]

\* Creates, updates, reads and deletes of both resources by both users, with
\* those bodies, one request at a time.
OwnNext ==
    \/ AllIdle /\ \E c \in Callers, b \in OwnerPostBodies : createPost(c, b)
    \/ AllIdle /\ \E p \in Procs, c \in Callers, i \in Ids, b \in OwnerPostBodies :
          UpdatePostFind(p, c, i, b)
    \/ \E p \in Procs : UpdatePostSave(p)
    \/ AllIdle /\ \E c \in Callers, i \in Ids : DeletePost(c, i)
    \/ AllIdle /\ \E p \in Procs, c \in Callers, i \in Ids : GetPostFind(p, c, i)
    \/ \E p \in Procs : GetPostSave(p)
    \/ AllIdle /\ \E c \in Callers, b \in OwnerTaskBodies : createTask(c, b)
    \/ AllIdle /\ \E p \in Procs, c \in Callers, i \in Ids, b \in OwnerTaskBodies :
          UpdateTaskFind(p, c, i, b)
    \/ \E p \in Procs : UpdateTaskSave(p)
    \/ AllIdle /\ \E c \in Callers, i \in Ids : DeleteTask(c, i)

OwnSpec == Init /\ [][OwnNext]_vars

\* Collections for the owner-scoped listings: up to MaxOwned tasks and
\* MaxDocs posts, each deleted or owned by either user, tasks completed or
\* not, posts published or not; a document's createdAt follows its id.
OwnedTasks ==
    [1..MaxOwned -> {NoDoc} \cup {[NewTask(0, u, "hello") EXCEPT !.completed = b] :
                                    u \in Callers, b \in BOOLEAN}]

OwnedPosts ==
    [Ids -> {NoDoc} \cup {[NewPost(0, u, "hello") EXCEPT !.published = b] :
                              u \in Callers, b \in BOOLEAN}]

StampIds(coll) ==
    [i \in DOMAIN coll |->
        IF coll[i] = NoDoc THEN NoDoc
        ELSE [coll[i] EXCEPT !._id = i, !.createdAt = i]]

OwnedInit ==
    /\ AuthInit
    /\ ClientInit /\ ProcInit
    /\ posts \in {StampIds(c) : c \in OwnedPosts}
    /\ tasks \in {StampIds(c) : c \in OwnedTasks}
    /\ nextId = 1
    /\ pc = [p \in Procs |-> "idle"]
    /\ loc = [p \in Procs |-> Idle]
    /\ last = Null

\* getTasks with every filter and getMyPosts, by either user.
OwnedNext ==
    \/ AllIdle /\ \E p \in Procs, c \in Callers, f \in TaskFilters : GetTasksFind(p, c, f)
    \/ \E p \in Procs : GetTasksReturn(p)
    \/ AllIdle /\ \E c \in Callers : GetMyPosts(c)

OwnedSpec == OwnedInit /\ [][OwnedNext]_vars

\* Collections for search: the posts of Collections, all titled alike.
SearchInit ==
    /\ AuthInit
    /\ ClientInit /\ ProcInit
    /\ posts \in {Stamp(c) : c \in Collections}
    /\ tasks = [i \in Ids |-> NoDoc]
    /\ nextId = 1
    /\ pc = [p \in Procs |-> "idle"]
    /\ loc = [p \in Procs |-> Idle]
    /\ last = Null

\* The term every listed post's title matches.
ListedTerm == "hello"

\* Search requests for one term with every page and limit, on a collection
\* that does not change.
SearchNext ==
    \E o \in Options(1..MaxPage, 1..MaxLimit \cup {DefaultLimit}, {EmptyFilter}) :
        Search(ListedTerm, o)

SearchSpec == SearchInit /\ [][SearchNext]_vars

\* GET /api/posts with every search parameter, one request at a time.
ListNext ==
    \/ AllIdle /\ \E p \in Procs, t \in SearchTerms,
                     o \in Options(1..MaxDocs, 1..MaxDocs, {EmptyFilter}),
                     f \in {"find", "count"} : GetPosts(p, t, o, f)
    \/ \E p \in Procs : SearchReturn(p)
    \/ \E p \in Procs : PaginateSecond(p)

ListSpec == SearchInit /\ [][ListNext]_vars

AuthNext ==
    \/ \E h \in Headers, dbUp \in BOOLEAN : auth(h, dbUp)
    \/ \E u \in users : IssueToken(u)
    \/ \E t \in issued : DropToken(t)
    \/ Tick
    \/ Seed

AuthSpec == Init /\ [][AuthNext]_vars

\* Requests through auth while users are deleted, the store answering every
\* lookup.
RemovalNext ==
    \/ \E h \in Headers : auth(h, TRUE)
    \/ \E u \in users : IssueToken(u)
    \/ \E u \in users : RemoveUser(u)
    \/ Tick

RemovalSpec == Init /\ [][RemovalNext]_vars

\* Requests through optionalAuth, with tokens expiring, users deleted and
\* the store failing.
OptionalNext ==
    \/ \E h \in Headers, dbUp \in BOOLEAN : optionalAuth(h, dbUp)
    \/ \E u \in users : IssueToken(u)
    \/ \E u \in users : RemoveUser(u)
    \/ Tick

OptionalSpec == Init /\ [][OptionalNext]_vars

\* User documents on their way out: loaded with the password (as the
\* collection holds them) or attached to the request by a middleware.
SerialNext ==
    \/ \E h \in Headers : auth(h, TRUE)
    \/ \E h \in Headers : optionalAuth(h, TRUE)
    \/ \E u \in users : IssueToken(u)
    \/ \E u \in users, r \in {"admin", "user"} : SetRole(u, r)
    \/ \E doc \in users \cup ({req.user} \ {Null}) : SendUser(doc)

SerialSpec == Init /\ [][SerialNext]_vars

\* An empty User collection.
PasswordInit ==
    /\ users = {}
    /\ gen = 0
    /\ now = 0
    /\ issued = {}
    /\ req = NoReq
    /\ StoreInit
    /\ ClientInit /\ ProcInit

\* Saves of user documents, one at a time.
PasswordNext ==
    \/ AllIdle /\ \E p \in Procs, n \in {"Ann", "Anna"}, r \in RawPasswords :
          UserCreate(p, n, r)
    \/ AllIdle /\ \E p \in Procs, u \in users, n \in {"Ann", "Anna"},
                     r \in RawPasswords \cup {NoPassword} : UserEdit(p, u, n, r)
    \/ \E p \in Procs : UserSave(p)

PasswordSpec == PasswordInit /\ [][PasswordNext]_vars

\* Routes guarded by isAdmin, after auth, after optionalAuth or alone, with
\* roles changing in the store.
AdminNext ==
    \/ \E h \in Headers, dbUp \in BOOLEAN : auth(h, dbUp)
    \/ \E h \in Headers : optionalAuth(h, TRUE)
    \/ isAdmin
    \/ \E u \in users : IssueToken(u)
    \/ \E u \in users, r \in {"admin", "user"} : SetRole(u, r)

AdminSpec == Init /\ [][AdminNext]_vars

\* A browser that logs in and out while its tokens are presented to auth
\* and the clock advances.
TokenNext ==
    \/ Mount
    \/ \E c \in CallIds, cred \in Credentials :
          cred.email = SeedEmails[2] /\ AuthCall(c, "login", cred)
    \/ \E c \in CallIds : ServeLogin(c)
    \/ \E c \in CallIds : AuthSettle(c)
    \/ Logout
    \/ \E t \in issued, h \in Headers : Carries(h, t) /\ auth(h, TRUE)
    \/ Tick

TokenSpec == Init /\ [][TokenNext]_vars

\* Requests through the wrapped handlers, each settling either way.
HandlerNext ==
    \/ \E p \in Procs, h \in Handlers : Enter(p, h)
    \/ \E p \in Procs, r \in UNION {SettlesTo(h) : h \in Handlers} : Settle(p, r)

HandlerSpec == Init /\ [][HandlerNext]_vars

\* The errors that reach errorHandler: Mongoose validation errors on every
\* set of failing paths, the duplicate key error of the unique email index,
\* a failed cast, the errors of jsonwebtoken, the error notFound makes for an
\* unknown route, and errors with no name or field the handler knows, with
\* and without a message.
PathSets == (SUBSET {"title", "body", "text"}) \ {{}}

NotFoundError ==
    [Err("Error", "Route not found", {}) EXCEPT !.statusCode = 404]

ErrorsRaised ==
    {ValidationError(ps) : ps \in PathSets}
      \cup {DuplicateKeyError("email"), CastError, DocumentNotFoundError,
            StoreError, NotFoundError,
            Err("JsonWebTokenError", "jwt malformed", {}),
            Err("TokenExpiredError", "jwt expired", {}),
            Err("Error", "", {})}

\* next(err) for the request in slot p: Express skips to errorHandler, which
\* answers.
Raise(p, err) ==
    /\ pc[p] = "handler"
    /\ last' = [op |-> loc[p].op, slot |-> p, result |-> Rejected(err),
                nexts |-> <<err>>, responses |-> <<errorHandler(err)>>]
    /\ Finish(p)
    /\ UNCHANGED <<posts, tasks, nextId, server>>
    /\ UNCHANGED <<authVars, clientVars>>

ErrorNext ==
    \/ \E p \in Procs, h \in Handlers : Enter(p, h)
    \/ \E p \in Procs, e \in ErrorsRaised : Raise(p, e)

ErrorSpec == Init /\ [][ErrorNext]_vars

\* What localStorage holds when the page is opened: nothing, or the token
\* and the user a login of an earlier visit left there.
StoredSessions ==
    LET u == SeedUser(0, 2) IN
    {[token |-> Null, user |-> Null],
     [token |-> generateAuthToken(u), user |-> JSONstringify(UserData(u))]}

SessionInit ==
    /\ AuthInit
    /\ StoreInit
    /\ ProcInit
    /\ authState = [user |-> Null, token |-> Null, loading |-> TRUE]
    /\ localStorage \in StoredSessions
    /\ taskState = [tasks |-> <<>>, loading |-> TRUE, error |-> Null]
    /\ pageState = PostsInitialState
    /\ calls = [c \in CallIds |-> NoCall]

\* AuthProvider in the browser: logins, registrations and logouts in any
\* order, each call settling whenever its response arrives or its fetch fails.
SessionNext ==
    \/ Mount
    \/ \E c \in CallIds, k \in {"login", "register"}, cred \in Credentials :
          AuthCall(c, k, cred)
    \/ \E c \in CallIds : ServeLogin(c)
    \/ \E c \in CallIds : ServeRegister(c)
    \/ \E c \in CallIds : FetchFails(c)
    \/ \E c \in CallIds : AuthSettle(c)
    \/ Logout

SessionSpec == SessionInit /\ [][SessionNext]_vars

\* The task collection when the Tasks page is opened: empty, or holding one
\* task of the user.
TaskInit ==
    /\ AuthInit
    /\ ProcInit
    /\ posts = [i \in Ids |-> NoDoc]
    /\ tasks \in {[i \in Ids |-> NoDoc],
                  [i \in Ids |-> IF i = 1 THEN NewTask(1, Me, "world") ELSE NoDoc]}
    /\ nextId = IF tasks[1] = NoDoc THEN 1 ELSE 2
    /\ pc = [p \in Procs |-> "idle"]
    /\ loc = [p \in Procs |-> Idle]
    /\ last = Null
    /\ authState = [user |-> Null, token |-> Null, loading |-> TRUE]
    /\ localStorage = [token |-> Null, user |-> Null]
    /\ taskState = [tasks |-> <<>>, loading |-> TRUE, error |-> Null]
    /\ pageState = PostsInitialState
    /\ calls = [c \in CallIds |->
                  IF c = 1 THEN [k |-> "fetchTasks", res |-> Null] ELSE NoCall]

\* useTaskManager after its mount effect has called fetchTasks: the user
\* adds, toggles, edits, deletes and refreshes, and each call settles when
\* its response arrives; every request reaches the server.
TaskNext ==
    \/ \E c \in CallIds, id \in Ids, text \in TaskTexts,
          kind \in {"addTask", "toggleTask", "updateTaskText", "removeTask"} :
          TaskCall(c, kind, id, text)
    \/ \E c \in CallIds : FetchTasksCall(c)
    \/ \E c \in CallIds : ServeTask(c)
    \/ \E c \in CallIds : TaskSettle(c)

TaskSpec == TaskInit /\ [][TaskNext]_vars

\* The collection behind the Posts page: two pages of published posts, the
\* newest and the oldest written by the logged-in user, one titled "hello"
\* and one "web".
PagePost(i) ==
    NewPost(i, IF i \in {1, PagePosts} THEN Me ELSE Bob,
            IF i = 1 THEN "hello" ELSE IF i = 2 THEN "web" ELSE "world")

PostsPageInit ==
    /\ AuthInit
    /\ ProcInit
    /\ posts = [i \in 1..PagePosts |-> PagePost(i)]
    /\ tasks = [i \in Ids |-> NoDoc]
    /\ nextId = PagePosts + 1
    /\ pc = [p \in Procs |-> "idle"]
    /\ loc = [p \in Procs |-> Idle]
    /\ last = Null
    /\ authState = [user |-> UserData(SeedUser(0, 2)),
                    token |-> generateAuthToken(SeedUser(0, 2)),
                    loading |-> FALSE]
    /\ localStorage = [token |-> generateAuthToken(SeedUser(0, 2)),
                       user |-> JSONstringify(UserData(SeedUser(0, 2)))]
    /\ taskState = [tasks |-> <<>>, loading |-> TRUE, error |-> Null]
    /\ pageState = PostsInitialState
    /\ calls = [c \in CallIds |->
                  IF c = 1 THEN LoadPostsRequest(PostsInitialState) ELSE NoCall]

\* The Posts page of a logged-in user after its mount effect has called
\* loadPosts: the user types, searches, clears, turns pages and deletes own
\* posts, and each call settles when its response arrives; every request
\* reaches the server.
PostsPageNext ==
    \/ \E q \in SearchInputs : setSearchQuery(q)
    \/ \E c \in CallIds : handleSearch(c)
    \/ \E c \in CallIds : clearSearch(c)
    \/ \E c \in CallIds : goToNextPage(c)
    \/ \E c \in CallIds : goToPreviousPage(c)
    \/ \E c \in CallIds, page \in 1..MaxPage : goToPage(c, page)
    \/ \E c \in CallIds, i \in 1..POSTS_PER_PAGE : handleDeletePost(c, i)
    \/ \E c \in CallIds : ServePosts(c)
    \/ \E c \in CallIds : DeleteSettle(c)
    \/ \E c \in CallIds : LoadSettle(c)

PostsPageSpec == PostsPageInit /\ [][PostsPageNext]_vars

\* getPosts without a search term while posts are created, un-published,
\* published again and deleted: the handlers interleave at their awaits, and
\* a write can take effect between the two queries of paginate.
ConcurrentListNext ==
    \/ \E c \in Callers : CreatePost(c, "hello")
    \/ \E p \in Procs, c \in Callers, i \in Ids, b \in PostBodies :
          /\ b.title = Undefined
          /\ b.published # Undefined
          /\ UpdatePostFind(p, c, i, b)
    \/ \E p \in Procs : UpdatePostSave(p)
    \/ \E c \in Callers, i \in Ids : DeletePost(c, i)
    \/ \E p \in Procs, o \in Options(1..MaxDocs, 1..MaxDocs, {EmptyFilter}),
          f \in {"find", "count"} : PaginateFirst(p, o, f)
    \/ \E p \in Procs : PaginateSecond(p)

ConcurrentListSpec == Init /\ [][ConcurrentListNext]_vars

\* getTaskStats while tasks are created, completed, re-opened and deleted:
\* the handlers interleave at their awaits, and a write can take effect
\* between the two count queries of getStats.
StatsNext ==
    \/ \E c \in Callers : CreateTask(c, "hello")
    \/ \E p \in Procs, c \in Callers, i \in Ids, b \in TaskBodies :
          /\ b.text = Undefined
          /\ b.completed # Undefined
          /\ UpdateTaskFind(p, c, i, b)
    \/ \E p \in Procs : UpdateTaskSave(p)
    \/ \E c \in Callers, i \in Ids : DeleteTask(c, i)
    \/ \E p \in Procs, c \in Callers : GetStatsTotal(p, c)
    \/ \E p \in Procs : GetStatsCompleted(p)

StatsSpec == Init /\ [][StatsNext]_vars

----------------------------------------------------------------------------
(* Claims about the ownership-scoped controllers, checked under Spec *)

Exists(coll, i) == i \in Ids /\ coll[i] # NoDoc

PostMiss == Json(404, "Post not found or unauthorized", NoErrors, Null)
TaskMiss == Json(404, "Task not found", NoErrors, Null)

\* The step just taken answered a request of operation op without a save:
\* every step sets last to what it sent, and only a save step frees a slot.
AnsweredAtLookup(op) ==
    /\ last' # Null
    /\ last'.op = op
    /\ last'.id \in Ids
    /\ pc' = pc

\* C3: an update by a user who is not the owner is answered exactly as an
\* update of an id that does not exist (404, the same body), reaches no save,
\* and leaves both collections unchanged.
C3_NonOwnerUpdateLikeMissing ==
    [][/\ (/\ AnsweredAtLookup("updatePost")
           /\ \/ posts[last'.id] = NoDoc
              \/ posts[last'.id].author # last'.caller)
          => (last'.res = PostMiss /\ posts' = posts /\ tasks' = tasks)
       /\ (/\ AnsweredAtLookup("updateTask")
           /\ \/ tasks[last'.id] = NoDoc
              \/ tasks[last'.id].user # last'.caller)
          => (last'.res = TaskMiss /\ posts' = posts /\ tasks' = tasks)
       /\ \A p \in Procs :
            (pc[p] = "idle" /\ pc'[p] \in {"updatePost", "updateTask"})
               => /\ pc'[p] = "updatePost" =>
                       posts[loc'[p].id].author = loc'[p].caller
                  /\ pc'[p] = "updateTask" =>
                       tasks[loc'[p].id].user = loc'[p].caller]_vars

C3_Witness ==
    /\ last # Null
    /\ last.op = "updateTask"
    /\ last.res = TaskMiss
    /\ Exists(tasks, last.id)
    /\ tasks[last.id].user # last.caller
    /\ \E j \in Ids : Exists(posts, j) /\ posts[j].author = last.caller

\* C4: a delete by a non-owner removes nothing and is answered with the 404
\* of a missing id; a delete by the owner removes that one document and
\* leaves every other document of both collections as it was.
C4_DeleteScopedToOwner ==
    [][/\ AnsweredAtLookup("deletePost") =>
             IF posts[last'.id] # NoDoc /\ posts[last'.id].author = last'.caller
             THEN /\ posts' = [posts EXCEPT ![last'.id] = NoDoc]
                  /\ tasks' = tasks
                  /\ last'.res.status = 200
             ELSE /\ posts' = posts /\ tasks' = tasks
                  /\ last'.res = PostMiss
       /\ AnsweredAtLookup("deleteTask") =>
             IF tasks[last'.id] # NoDoc /\ tasks[last'.id].user = last'.caller
             THEN /\ tasks' = [tasks EXCEPT ![last'.id] = NoDoc]
                  /\ posts' = posts
                  /\ last'.res.status = 200
             ELSE /\ posts' = posts /\ tasks' = tasks
                  /\ last'.res = TaskMiss]_vars

C4_Witness ==
    /\ last # Null
    /\ last.op = "deleteTask"
    /\ last.res.status = 200
    /\ tasks[last.id] = NoDoc
    /\ \E j \in Ids : Exists(tasks, j) /\ tasks[j].user = last.caller

\* C5: an update is one atomic store operation, so a well-formed update with
\* a valid body ends either with the patched document stored and returned
\* (200) or with the 404 of the owner-scoped miss.
C5_UpdateIsAtomic ==
    (/\ last # Null
     /\ last.op \in {"updatePost", "updateTask"}
     /\ last.id \in Ids
     /\ last.res.status # 400)
        => \/ last.res.status = 404
           \/ /\ last.res.status = 200
              /\ last.op = "updatePost" => posts[last.id] = last.res.data
              /\ last.op = "updateTask" => tasks[last.id] = last.res.data

----------------------------------------------------------------------------
(* Claims about the view counter *)

\* C6: under every interleaving of getPost, updatePost and deletePost on a
\* post, the stored views of a post never decreases from one step to the
\* next.  Checked under ViewSpec.
C6_ViewsNeverDecrease ==
    [][\A i \in Ids :
          (posts[i] # NoDoc /\ posts'[i] # NoDoc)
             => posts'[i].views >= posts[i].views]_vars

\* C7: with requests handled one at a time, a getPost of an existing post
\* stores views + 1 on that post and nothing else, and answers 200 with the
\* post, whoever the caller and the author are; a getPost of a well-formed id
\* with no post is answered 404 and changes no post.  Checked under SeqSpec.
C7_GetPostCountsOneView ==
    [][/\ \A p \in Procs :
            (pc[p] = "getPost" /\ pc'[p] = "idle") =>
               /\ Exists(posts, loc[p].id)
               /\ posts' = [posts EXCEPT ![loc[p].id].views = @ + 1]
               /\ last' = Sent("getPost", loc[p].caller, loc[p].id,
                               Json(200, "", NoErrors, posts'[loc[p].id]))
       /\ \A p \in Procs :
            (pc[p] = "idle" /\ pc'[p] = "getPost") =>
               /\ Exists(posts, loc'[p].id)
               /\ posts' = posts
       /\ AnsweredAtLookup("getPost") =>
               /\ ~Exists(posts, last'.id)
               /\ last'.res = Json(404, "Post not found", NoErrors, Null)
               /\ posts' = posts]_vars

C7_Witness ==
    /\ last # Null
    /\ last.op = "getPost"
    /\ last.res.status = 200
    /\ last.caller = Anonymous
    /\ posts[last.id].views = 2
    /\ last.res.data = posts[last.id]
    /\ \E j \in Ids : j # last.id /\ Exists(posts, j) /\ posts[j].views = 0

----------------------------------------------------------------------------
(* Claims about the patch an update applies, checked under SeqSpec *)

\* C8: a successful update by the owner sets every updatable field present in
\* the request body to the supplied value, whatever that value is, and
\* leaves every other field of the stored document as it was.
C8_UpdateAppliesPresentKeys ==
    [][\A p \in Procs :
          /\ (pc[p] = "updatePost" /\ pc'[p] = "idle" /\ last'.res.status = 200) =>
                LET b == loc[p].body
                    old == posts[loc[p].id]
                    new == posts'[loc[p].id]
                IN  /\ new.title = IF b.title # Undefined THEN b.title ELSE old.title
                    /\ new.published = IF b.published # Undefined
                                       THEN CastBoolean(b.published) ELSE old.published
                    /\ \A f \in DOMAIN old \ {"title", "published"} : new[f] = old[f]
          /\ (pc[p] = "updateTask" /\ pc'[p] = "idle" /\ last'.res.status = 200) =>
                LET b == loc[p].body
                    old == tasks[loc[p].id]
                    new == tasks'[loc[p].id]
                IN  /\ new.text = IF b.text # Undefined THEN b.text ELSE old.text
                    /\ new.completed = IF b.completed # Undefined
                                       THEN CastBoolean(b.completed) ELSE old.completed
                    /\ \A f \in DOMAIN old \ {"text", "completed"} : new[f] = old[f]]_vars

----------------------------------------------------------------------------
(* Claims about the listing statics *)

\* The published posts of the store.
Published == {i \in DOMAIN posts : posts[i] # NoDoc /\ posts[i].published}

Min(a, b) == IF a <= b THEN a ELSE b
Max(a, b) == IF a >= b THEN a ELSE b

\* C9: for page >= 1 and limit >= 1, paginate returns the published posts at
\* positions skip+1 .. skip+limit of the newest-first order, with
\* skip = (page-1)*limit; it reports total = the number of published posts,
\* pages = ceil(total/limit) and hasMore = (skip + returned < total); a page
\* beyond the last one is empty with hasMore false (25 posts, limit 10:
\* page 1 has 10 posts of 3 pages and more to come, page 3 has 5 posts and
\* no more, page 4 has none).  Checked under PagSpec.
C9_PaginateWindow ==
    (last # Null /\ last.op = "paginate") =>
        LET r == last.res.data.posts
            g == last.res.data.pagination
            N == Cardinality(Published)
            skip == (g.page - 1) * g.limit
            Newer(d) == Cardinality({i \in Published : posts[i].createdAt > d.createdAt})
        IN  /\ last.res.status = 200
            /\ Len(r) = Max(0, Min(g.limit, N - skip))
            /\ \A k \in 1..Len(r) :
                  /\ r[k] \in {posts[i] : i \in Published}
                  /\ Newer(r[k]) = skip + k - 1
            /\ g.total = N
            /\ g.pages * g.limit >= N
            /\ (g.pages - 1) * g.limit < N
            /\ g.hasMore = (skip + Len(r) < N)
            /\ g.page > g.pages => (r = <<>> /\ g.hasMore = FALSE)
            /\ (N = 25 /\ g.limit = 10) =>
                  /\ g.pages = 3
                  /\ g.page = 1 => (Len(r) = 10 /\ g.hasMore = TRUE)
                  /\ g.page = 3 => (Len(r) = 5 /\ g.hasMore = FALSE)
                  /\ g.page = 4 => Len(r) = 0

C9_Witness ==
    /\ last # Null
    /\ last.op = "paginate"
    /\ last.res.data.pagination.page = 2
    /\ last.res.data.pagination.limit = 2
    /\ Len(last.res.data.posts) = 1
    /\ last.res.data.pagination.hasMore = FALSE
    /\ \E i \in DOMAIN posts : posts[i] # NoDoc /\ ~posts[i].published
                                /\ i > last.res.data.posts[1]._id

\* C10: every post that paginate (for every page, limit and filter) or search
\* returns has published = true, and the total paginate reports counts
\* published posts only.  Checked under SeqSpec.
C10_ListingOnlyPublished ==
    (last # Null /\ last.op \in {"paginate", "search"}) =>
        /\ \A k \in 1..Len(last.res.data.posts) :
              last.res.data.posts[k].published = TRUE
        /\ last.res.data.pagination.total <= Cardinality(Published)

\* C11: search applies no page/limit window: for one term and an unchanged
\* collection the posts returned are the same for every page and limit, so
\* every response holds all the published posts that match the term.
\* Checked under SearchSpec, where every post matches the term.
C11_SearchNotWindowed ==
    (last # Null /\ last.op = "search") =>
        {last.res.data.posts[k] : k \in 1..Len(last.res.data.posts)}
            = {posts[i] : i \in Published}

\* C12: an empty or whitespace-only search term is never forwarded to
\* Post.search: whenever getPosts is waiting on Post.search, the term it
\* passed is not blank.  Checked under ListSpec.
C12_BlankTermNotSearched ==
    \A p \in Procs :
        pc[p] = "search" => Trim(loc[p].query) \notin {Undefined, ""}

----------------------------------------------------------------------------
(* Claims about the auth middleware, checked under AuthSpec *)

\* The header carries a token the server signed and that has not expired:
\* the header is the token itself or 'Bearer ' followed by it.
CarriesValidToken(h, t) ==
    /\ t \in issued
    /\ now < t.exp
    /\ h \in {<<t>>, <<Bearer, t>>}

\* C1: every run of auth ends in exactly one of a response sent or one call
\* of next(); next() is called only when the header is present and carries a
\* non-empty token that verifies and whose user id resolves to a stored user,
\* and then req.user is that user's record and req.userId its id.
C1_AuthExactlyOneOutcome ==
    req.mw = "auth" =>
        /\ req.nexts \in {0, 1}
        /\ (req.status # 0) # (req.nexts = 1)
        /\ req.nexts = 1 =>
              /\ req.header # NoHeader
              /\ req.header # <<>>
              /\ req.header # <<Bearer>>
              /\ \E t \in issued, u \in users :
                    /\ CarriesValidToken(req.header, t)
                    /\ u._id = t.id
                    /\ req.user = SelectNoPassword(u)
                    /\ req.userId = [k |-> "id", v |-> u._id]
        /\ req.nexts = 0 => req.user = Null /\ req.userId = Null

C1_Witness ==
    /\ req.mw = "auth"
    /\ req.nexts = 1
    /\ req.status = 0
    /\ Len(req.header) = 2
    /\ req.user # Null
    /\ req.user.role = "user"

\* C2: on the mandatory path every authentication failure (no header, empty
\* token, malformed or wrongly signed token, expired token, any header whose
\* token does not verify) is answered 401 and next() is not called.
C2_AuthFailureIs401 ==
    (req.mw = "auth" /\ ~\E t \in issued : CarriesValidToken(req.header, t)) =>
        /\ req.status = 401
        /\ req.nexts = 0

C2_Witness ==
    /\ req.mw = "auth"
    /\ req.status = 401
    /\ req.nexts = 0
    /\ \E t \in issued : req.header = <<Bearer, t>> /\ now >= t.exp

----------------------------------------------------------------------------
(* Claims about deleted users, checked under RemovalSpec *)

\* C13: the user is looked up in the store on every request: a request with
\* a token signed for a user whose record has been deleted, expired or not,
\* is answered 401 and never reaches next(); an unexpired token of a user
\* who is still stored passes, whichever other users were deleted.
C13_DeletedUserRejected ==
    req.mw = "auth" =>
        \A t \in issued :
            Carries(req.header, t) =>
                IF \E u \in users : u._id = t.id
                THEN now < t.exp =>
                        /\ req.nexts = 1
                        /\ req.status = 0
                        /\ req.user # Null
                        /\ req.user._id = t.id
                ELSE /\ req.status = 401
                     /\ req.nexts = 0
                     /\ req.user = Null

C13_Witness ==
    /\ req.mw = "auth"
    /\ req.status = 401
    /\ req.message = "User not found, token invalid"
    /\ users # {}
    /\ \E t \in issued :
          /\ req.header = <<Bearer, t>>
          /\ now < t.exp
          /\ t.id \notin {u._id : u \in users}

----------------------------------------------------------------------------
(* Claims about optionalAuth, checked under OptionalSpec *)

\* C14: optionalAuth never rejects: every run sends no response and calls
\* next() once; req.user and req.userId are set only when the header carries
\* a token that verifies and whose user is stored, and then they are that
\* user's record (without password) and id.
C14_OptionalAuthNeverRejects ==
    req.mw = "optionalAuth" =>
        /\ req.status = 0
        /\ req.nexts = 1
        /\ req.user = Null => req.userId = Null
        /\ req.user # Null =>
              \E t \in issued, u \in users :
                 /\ CarriesValidToken(req.header, t)
                 /\ u._id = t.id
                 /\ req.user = SelectNoPassword(u)
                 /\ req.userId = [k |-> "id", v |-> u._id]

C14_Witness ==
    /\ req.mw = "optionalAuth"
    /\ req.nexts = 1
    /\ req.user = Null
    /\ \E t \in issued :
          /\ CarriesValidToken(req.header, t)
          /\ t.id \notin {u._id : u \in users}

----------------------------------------------------------------------------
(* Claims about isAdmin, checked under AdminSpec *)

\* C15: isAdmin calls next() only when a user is attached and that user's
\* role is admin; with no user attached it answers 401, with a user of
\* another role 403, and then next() is not called.  The role is the one of
\* the stored user record, whatever role the token claims.
C15_AdminGate ==
    req.mw = "isAdmin" =>
        /\ (req.status # 0) # (req.nexts = 1)
        /\ req.user = Null => (req.status = 401 /\ req.nexts = 0)
        /\ (req.user # Null /\ req.user.role # "admin") =>
              (req.status = 403 /\ req.nexts = 0)
        /\ req.nexts = 1 =>
              /\ req.user # Null
              /\ \E u \in users : u._id = req.user._id /\ u.role = "admin"
        /\ \A t \in issued, u \in users :
              (Carries(req.header, t) /\ u._id = t.id /\ u.role # "admin")
                 => req.nexts = 0

C15_Witness ==
    /\ req.mw = "isAdmin"
    /\ req.status = 403
    /\ req.nexts = 0
    /\ \E t \in issued : Carries(req.header, t) /\ t.role = "admin"

----------------------------------------------------------------------------
(* Claims about ownership and creation, checked under OwnSpec *)

\* C16: the author of a stored post and the user of a stored task never
\* change: a document enters a collection only by its create handler, with
\* the creating caller as owner, and no later step changes that path,
\* whatever owner the request bodies name.
C16_OwnerImmutable ==
    [][/\ \A i \in Ids :
            /\ (posts[i] # NoDoc /\ posts'[i] # NoDoc)
                  => posts'[i].author = posts[i].author
            /\ (posts[i] = NoDoc /\ posts'[i] # NoDoc)
                  => (last'.op = "createPost" /\ posts'[i].author = last'.caller)
       /\ \A i \in Ids :
            /\ (tasks[i] # NoDoc /\ tasks'[i] # NoDoc)
                  => tasks'[i].user = tasks[i].user
            /\ (tasks[i] = NoDoc /\ tasks'[i] # NoDoc)
                  => (last'.op = "createTask" /\ tasks'[i].user = last'.caller)]_vars

C16_Witness ==
    /\ last # Null
    /\ last.op = "updatePost"
    /\ last.res.status = 200
    /\ posts[last.id].published = FALSE
    /\ posts[last.id].author = last.caller
    /\ \E j \in Ids : Exists(tasks, j) /\ tasks[j].completed
                        /\ tasks[j].user # last.caller

\* C18: a document that enters a collection is bound to the authenticated
\* caller and has the defaults of its schema, whatever the request body
\* carried: a task has user = the caller and completed = false, a post has
\* author = the caller, views = 0 and published = true; the 201 response
\* returns the document as stored.
C18_CreateBindsCaller ==
    [][/\ \A i \in Ids :
            (posts[i] = NoDoc /\ posts'[i] # NoDoc) =>
               /\ last'.op = "createPost"
               /\ last'.res.status = 201
               /\ last'.res.data = posts'[i]
               /\ posts'[i].author = last'.caller
               /\ posts'[i].views = 0
               /\ posts'[i].published = TRUE
       /\ \A i \in Ids :
            (tasks[i] = NoDoc /\ tasks'[i] # NoDoc) =>
               /\ last'.op = "createTask"
               /\ last'.res.status = 201
               /\ last'.res.data = tasks'[i]
               /\ tasks'[i].user = last'.caller
               /\ tasks'[i].completed = FALSE
       /\ (last' # Null /\ last'.op \in {"createPost", "createTask"}
             /\ last'.res.status # 201)
             => (posts' = posts /\ tasks' = tasks)]_vars

C18_Witness ==
    /\ last # Null
    /\ last.op = "createPost"
    /\ last.res.status = 201
    /\ last.caller = Bob
    /\ posts[last.id] = NewPost(last.id, Bob, "hello")
    /\ \E j \in Ids : Exists(tasks, j) /\ tasks[j] = NewTask(j, Jane, "hello")

----------------------------------------------------------------------------
(* Claims about the owner-scoped listings, checked under OwnedSpec *)

\* The elements of a sequence.
Range(seq) == {seq[k] : k \in 1..Len(seq)}

\* A list of distinct documents, each created after the one that follows it.
NewestFirst(seq) ==
    \A k \in 1..(Len(seq) - 1) : seq[k].createdAt > seq[k + 1].createdAt

\* C17: getTasks returns, newest first, all and only the caller's tasks that
\* match the filter ('active': not completed, 'completed': completed, any
\* other value or none: every task of the caller); getMyPosts returns,
\* newest first, all and only the posts the caller authored; no document of
\* another user is in either list.
C17_OwnerScopedListing ==
    [][/\ \A p \in Procs :
            (pc[p] = "getTasks" /\ pc'[p] = "idle") =>
               LET c == loc[p].caller
                   f == loc[p].filter
                   r == last'.res.data.tasks
               IN  /\ last'.res.status = 200
                   /\ last'.caller = c
                   /\ Range(r) =
                        {tasks[i] : i \in {j \in DOMAIN tasks :
                            /\ tasks[j] # NoDoc
                            /\ tasks[j].user = c
                            /\ f = "active" => ~tasks[j].completed
                            /\ f = "completed" => tasks[j].completed}}
                   /\ NewestFirst(r)
                   /\ last'.res.data.count = Len(r)
       /\ (last' # Null /\ last'.op = "getMyPosts") =>
               /\ last'.res.status = 200
               /\ Range(last'.res.data.posts) =
                    {posts[i] : i \in {j \in DOMAIN posts :
                        posts[j] # NoDoc /\ posts[j].author = last'.caller}}
               /\ NewestFirst(last'.res.data.posts)]_vars

C17_Witness ==
    /\ last # Null
    /\ last.op = "getTasks"
    /\ Len(last.res.data.tasks) = 1
    /\ ~last.res.data.tasks[1].completed
    /\ \E i, j \in DOMAIN tasks :
          /\ tasks[i] # NoDoc /\ tasks[i].user = last.caller /\ tasks[i].completed
          /\ tasks[j] # NoDoc /\ tasks[j].user # last.caller /\ ~tasks[j].completed

----------------------------------------------------------------------------
(* Claims about the password, checked under SerialSpec *)

\* C19: the serialized form of a user document never has a password path
\* (and keeps its _id and role), and the user a middleware attaches to the
\* request has no password path.
C19_PasswordWriteOnly ==
    /\ (last # Null /\ last.op = "sendUser") =>
          /\ "password" \notin DOMAIN last.res.data
          /\ {"_id", "role"} \subseteq DOMAIN last.res.data
          /\ last.res.data._id = last.caller
    /\ \A u \in users : "password" \notin DOMAIN toJSON(u)
    /\ req.user # Null => "password" \notin DOMAIN req.user

C19_Witness ==
    /\ last # Null
    /\ last.op = "sendUser"
    /\ "k" \notin DOMAIN last.res.data
    /\ DOMAIN last.res.data = {"_id", "name", "email", "role"}
    /\ req.user # Null
    /\ \E u \in users : u._id = last.caller /\ u.password = "hash"

----------------------------------------------------------------------------
(* Claims about password hashing, checked under PasswordSpec *)

\* C20: every save of a user document leaves the stored password the hash,
\* taken once, of the raw password most recently set: no raw password is
\* stored; a save that does not modify the password leaves the stored hash
\* as it was; a save that sets a password stores a hash that comparePassword
\* accepts for that password and for no other; no other user's document
\* changes.
C20_PasswordHashedOnce ==
    [][\A p \in Procs :
          (pc[p] = "userSave" /\ pc'[p] = "idle") =>
             LET l == loc[p]
                 new == UserById(users', l.doc._id)
             IN  /\ \A u \in users' : u.password \notin RawPasswords
                 /\ \A u \in users : u._id # l.doc._id => u \in users'
                 /\ "password" \notin l.mod =>
                       new.password = UserById(users, l.doc._id).password
                 /\ "password" \in l.mod =>
                       /\ new.password.k = "bcrypt"
                       /\ \A q \in RawPasswords :
                             comparePassword(new, q) <=> (q = l.doc.password)]_vars

----------------------------------------------------------------------------
(* Claims about the token's lifetime, checked under TokenSpec *)

\* The browser has logged in with the token t and logged out since.
LoggedOutOf(t) ==
    /\ ~authState.loading
    /\ authState.token = Null
    /\ localStorage.token = Null
    /\ \E c \in CallIds :
          /\ calls[c].k = "done"
          /\ calls[c].ret.success
          /\ calls[c].ret.data.token = t

\* C21: a signed token carries the id, email, name and role of its user and
\* expires JwtExpire days after it was signed; before its expiry it verifies
\* and a request carrying it passes auth as that user, after its expiry the
\* request is answered 401 'Token expired'; that is so whether or not the
\* browser that received the token has logged out.
C21_TokenLifetime ==
    \A t \in issued :
        /\ \E u \in users :
              /\ t.id = u._id /\ t.email = u.email
              /\ t.name = u.name /\ t.role = u.role
        /\ t.exp = t.iat + JwtExpire
        /\ now < t.exp => /\ jwtVerify(<<t>>).ok
                          /\ jwtVerify(<<t>>).decoded = t
        /\ now > t.exp => /\ ~jwtVerify(<<t>>).ok
                          /\ jwtVerify(<<t>>).name = "TokenExpiredError"
        /\ (req.mw = "auth" /\ Carries(req.header, t)) =>
              /\ now < t.exp =>
                    /\ req.status = 0 /\ req.nexts = 1
                    /\ req.user = SelectNoPassword(FindUserById(t.id))
                    /\ req.userId = [k |-> "id", v |-> t.id]
              /\ now > t.exp =>
                    /\ req.status = 401 /\ req.nexts = 0
                    /\ req.message = "Token expired, please login again"

\* A request with a token passes auth while the browser that logged in with
\* it has logged out.
C21_Witness ==
    \E t \in issued :
        /\ LoggedOutOf(t)
        /\ req.mw = "auth" /\ Carries(req.header, t)
        /\ req.nexts = 1
        /\ now > t.iat

----------------------------------------------------------------------------
(* Claims about the error path, checked under HandlerSpec *)

\* C22: when the promise of a wrapped handler rejects, the error is passed to
\* next exactly once and errorHandler sends exactly one response, an error
\* response, for that request; the process keeps listening and the other
\* request under way is left as it was.
C22_RejectionsStayInRequest ==
    [][\A p \in Procs :
          (pc[p] = "handler" /\ pc'[p] = "idle" /\ last'.result.k = "rejected") =>
              /\ last'.slot = p
              /\ last'.nexts = <<last'.result.err>>
              /\ Len(last'.responses) = 1
              /\ last'.responses[1] = errorHandler(last'.result.err)
              /\ ~last'.responses[1].success
              /\ last'.responses[1].status >= 400
              /\ server' = "listening"
              /\ \A q \in Procs \ {p} : pc'[q] = pc[q] /\ loc'[q] = loc[q]]_vars

\* A handler has rejected while another request was under way, and the
\* process is listening.
C22_Witness ==
    /\ last # Null
    /\ "result" \in DOMAIN last
    /\ last.result.k = "rejected"
    /\ last.result.err.name = "ValidationError"
    /\ \E q \in Procs : pc[q] = "handler"
    /\ server = "listening"

----------------------------------------------------------------------------
(* Claims about the error responses, checked under ErrorSpec *)

Recognised(err) ==
    \/ err.name \in {"ValidationError", "CastError", "JsonWebTokenError",
                     "TokenExpiredError"}
    \/ err.code = 11000

\* C23: every response of errorHandler has success false, a message and a
\* status code; a validation error gives 400 with one {field, message} entry
\* per failing path, a duplicate key error 400 with the field named in the
\* message, a failed cast 400, the JWT errors 401, and any other error its
\* own statusCode, or 500, with errors null.
C23_ErrorResponseShape ==
    (last # Null /\ last.result.k = "rejected") =>
        LET err == last.result.err
            res == last.responses[1]
        IN  /\ Len(last.responses) = 1
            /\ res.success = FALSE
            /\ res.message # ""
            /\ res.status \in 400..599
            /\ err.name = "ValidationError" =>
                  /\ res.status = 400
                  /\ res.errors.k = "array"
                  /\ Len(res.errors.items) = Cardinality(err.paths)
                  /\ \A f \in err.paths :
                        \E i \in 1..Len(res.errors.items) :
                            /\ res.errors.items[i] =
                                  [field |-> f, message |-> ValidatorError(f).message]
                            /\ \A j \in 1..Len(res.errors.items) :
                                  res.errors.items[j].field = f => j = i
            /\ err.code = 11000 =>
                  /\ res.status = 400
                  /\ res.message = err.keyPattern[1] \o " already exists"
            /\ err.name = "CastError" => res.status = 400
            /\ err.name \in {"JsonWebTokenError", "TokenExpiredError"} =>
                  res.status = 401
            /\ ~Recognised(err) =>
                  /\ res.status = IF err.statusCode # 0 THEN err.statusCode ELSE 500
                  /\ res.errors = Null

\* errorHandler has answered a validation error with two failing paths.
C23_Witness ==
    /\ last # Null
    /\ last.result.k = "rejected"
    /\ last.result.err.name = "ValidationError"
    /\ Cardinality(last.result.err.paths) = 2
    /\ Len(last.responses[1].errors.items) = 2

----------------------------------------------------------------------------
(* Claims about the browser's session, checked under SessionSpec *)

\* C24: ProtectedRoute shows the spinner while loading, redirects to /login
\* when loading is over and the token or the user is missing, and renders its
\* children only when loading is over and both are held; isAuthenticated is
\* true exactly when both are non-null.
C24_ProtectedRouteGate ==
    LET both == authState.token # Null /\ authState.user # Null
        view == ProtectedRoute(authState)
    IN  /\ isAuthenticated(authState) <=> both
        /\ authState.loading => view = "spinner"
        /\ (~authState.loading /\ ~both) => view = "Navigate to /login"
        /\ view = "children" <=> (~authState.loading /\ both)

\* A login has succeeded and the route renders its children.
C24_Witness ==
    /\ ProtectedRoute(authState) = "children"
    /\ \E c \in CallIds : calls[c].k = "done" /\ calls[c].ret.success

\* The state and localStorage hold the same session, or both hold none.
Agree(st, ls) ==
    /\ st.token = ls.token
    /\ st.user = Null <=> ls.user = Null
    /\ ls.user # Null => JSONparse(ls.user) = st.user
    /\ st.token = Null <=> st.user = Null

\* C25: once mounted, the state and localStorage agree after every step; a
\* login or register that got an OK response leaves the response's token and
\* user in all four places and returns success, one that got another
\* response or none changes none of them and returns {success: false}, and a
\* logout clears all four.
C25_StateAndStorageAgree ==
    [][/\ ~authState'.loading => Agree(authState', localStorage')
       /\ \A c \in CallIds :
             (Answered(c, {"login", "register"}) /\ calls'[c].k = "done") =>
                 IF calls[c].res.ok
                 THEN /\ authState'.token = calls[c].res.data.token
                      /\ authState'.user = calls[c].res.data.user
                      /\ localStorage'.token = calls[c].res.data.token
                      /\ JSONparse(localStorage'.user) = calls[c].res.data.user
                      /\ calls'[c].ret.success
                 ELSE /\ authState' = authState
                      /\ localStorage' = localStorage
                      /\ ~calls'[c].ret.success
       /\ (localStorage.token # Null /\ localStorage'.token = Null) =>
             /\ authState'.token = Null /\ authState'.user = Null
             /\ localStorage'.user = Null]_vars

\* A login has failed and a later one has succeeded, and the state and
\* localStorage hold its session.
C25_Witness ==
    /\ \E c, d \in CallIds :
          /\ calls[c].k = "done" /\ ~calls[c].ret.success
          /\ calls[d].k = "done" /\ calls[d].ret.success
          /\ authState.token = calls[d].ret.data.token
          /\ localStorage.token = calls[d].ret.data.token
    /\ authState.user # Null
    /\ Agree(authState, localStorage)

\* C26: the browser goes from logged out to logged in only on mount or when
\* a login or register settles that was started after the last logout.
C26_LogoutSticks ==
    [][(~isAuthenticated(authState) /\ isAuthenticated(authState')) =>
          \/ authState.loading
          \/ \E c \in CallIds :
                /\ Answered(c, {"login", "register"})
                /\ calls'[c].k = "done"
                /\ ~calls[c].overtaken]_vars

----------------------------------------------------------------------------
(* Claims about the task list in the browser, checked under TaskSpec *)

\* What a task shows: its id, text and completed flag.
Shown(task) == [_id |-> task._id, text |-> task.text, completed |-> task.completed]

\* No call is under way and none has failed since the list was last loaded.
TasksSettled ==
    /\ ~taskState.loading
    /\ taskState.error = Null
    /\ \A c \in CallIds :
          \/ calls[c].k = "none"
          \/ calls[c].k = "done" /\ calls[c].ret.success

\* C27: when no call of the hook is under way and none has failed, the list
\* in the browser holds exactly the user's tasks on the server, each once,
\* with the server's text and completed flag.
C27_LocalListMatchesServer ==
    TasksSettled =>
        /\ {Shown(taskState.tasks[i]) : i \in 1..Len(taskState.tasks)}
              = {Shown(tasks[i]) : i \in {j \in Ids : tasks[j] # NoDoc /\ tasks[j].user = Me}}
        /\ \A i, j \in 1..Len(taskState.tasks) :
              taskState.tasks[i]._id = taskState.tasks[j]._id => i = j

----------------------------------------------------------------------------
(* Claims about the Posts page, checked under PostsPageSpec *)

\* A request of the page is under way.
PostsInFlight == \E c \in CallIds : ~FreeCall(c)

\* C28: whenever no request is in flight, the posts shown are the server's
\* result for the current page number and the last submitted search query:
\* every page change, every submitted search and every clear has reloaded,
\* and no late response has overwritten a newer one.
C28_ShownIsServerResult ==
    (~PostsInFlight /\ pageState.error = Null) =>
        \E data \in getPostsData(posts, pageState.currentPage, POSTS_PER_PAGE,
                                 pageState.submitted) :
            pageState.posts = data.posts

----------------------------------------------------------------------------
(* Claims about paginate under concurrent writes, checked under
   ConcurrentListSpec *)

\* C29: the pagination descriptor of paginate is consistent with the page it
\* accompanies also under concurrent writes: skip + number of returned posts
\* <= total, and hasMore is true exactly when published posts exist beyond
\* the returned window.  The inequality is read for a page that holds posts:
\* an empty page beyond the last one has skip > total with no write at all.
C29_DescriptorConsistent ==
    (last # Null /\ last.op = "paginate") =>
        LET r == last.res.data.posts
            g == last.res.data.pagination
            skip == (g.page - 1) * g.limit
        IN  /\ Len(r) > 0 => skip + Len(r) <= g.total
            /\ g.hasMore <=> Cardinality(Published) > skip + Len(r)

----------------------------------------------------------------------------
(* Claims about the task statistics, checked under StatsSpec *)

\* The tasks of a user in the store, and the completed ones among them.
TasksOf(u) == {i \in DOMAIN tasks : tasks[i] # NoDoc /\ tasks[i].user = u}
CompletedOf(u) == {i \in TasksOf(u) : tasks[i].completed}

\* C30: getStats returns, for the given user, total = completed + active
\* with 0 <= completed <= total and active >= 0, and the counts cover only
\* that user's tasks, also when create, update or delete requests of the
\* same user take effect between its two count queries.
C30_StatsConsistent ==
    (last # Null /\ last.op = "getTaskStats") =>
        LET stats == last.res.data.stats IN
        /\ stats.total = stats.completed + stats.active
        /\ 0 <= stats.completed
        /\ stats.completed <= stats.total
        /\ stats.active >= 0
        /\ stats.completed = Cardinality(CompletedOf(last.caller))

====
